---- MODULE Spec2Model ----
(***************************************************************************)
(* Forms analytics synchronisation and caching of payload-hubspot.        *)
(*                                                                         *)
(*   utils/syncFormAnalytics.ts : fetchFormAnalytics, syncFormAnalytics,   *)
(*                                refreshFormAnalytics                     *)
(*   utils/hubspotApi.ts        : fetchFormAnalyticsWithRetry,             *)
(*                                hubspotFormsHandler, formsCache          *)
(*                                                                         *)
(* Time is Date.now() in milliseconds.  Rates are kept in hundredths, so   *)
(* the ratio 1 is the integer One.  An object with optional keys (the      *)
(* totals of a response, the analytics group of a record) is a function    *)
(* whose DOMAIN is the set of keys that are present.  Every await of the   *)
(* code is a step of the model; the code between two awaits is atomic.     *)
(***************************************************************************)
EXTENDS Integers, Sequences, FiniteSets, TLC

VARIABLES
    clock,       \* Date.now()
    docs,        \* the hubspot-forms collection, in the order find returns it
    sync,        \* the runs of syncFormAnalytics
    refresh,     \* one call of refreshFormAnalytics with a formId
    formsCache,  \* the module variable formsCache of hubspotApi.ts
    handler,     \* the requests served by hubspotFormsHandler
    faults,      \* the number of failures of the remote service and of the store so far
    call,        \* one call of a fetcher, taken on its own
    init,        \* one call of the onInit hook of the plugin and its timer callback
    endpoint,    \* one request to POST /hubspot/refresh-analytics/:formId?
    config,      \* the config of the host the plugin is applied to
    hook         \* one call of the beforeChange hook of the collection

vars ==
    <<clock, docs, sync, refresh, formsCache, handler, faults, call, init, endpoint, config,
      hook>>

(***************************************************************************)
(* Bounds of the model.                                                    *)
(***************************************************************************)
MaxFaults == 3

NumCapForms == 22

(***************************************************************************)
(* Constants of the program.                                               *)
(***************************************************************************)
One == 100

CACHE_DURATION == 3600 * 1000

RATE_LIMIT_DELAY == 50

MAX_RETRIES == 3

BASE_RETRY_DELAY == 1000

ANALYTICS_CACHE_DURATION == 24 * 60 * 60 * 1000

ANALYTICS_RATE_LIMIT_DELAY == 3000

MAX_FORMS_PER_SYNC == 20

SYNC_MAX_RETRIES == 3

SYNC_BASE_RETRY_DELAY == 2000

\* Math.random() * 1000 lies in [0, 1000): its extremes and a middle value
RandomJitter == {0, 500, 999}

Pow2(n) == IF n = 0 THEN 1 ELSE IF n = 1 THEN 2 ELSE IF n = 2 THEN 4 ELSE 8

(***************************************************************************)
(* Objects with optional keys.                                             *)
(***************************************************************************)
EmptyObj == [k \in {} |-> 0]

Has(o, k) == k \in DOMAIN o

\* o.k || 0
OrZero(o, k) == IF Has(o, k) THEN o[k] ELSE 0

\* { ...a, ...b }
Spread(a, b) ==
    [k \in (DOMAIN a) \cup (DOMAIN b) |-> IF k \in DOMAIN b THEN b[k] ELSE a[k]]

\* an object literal loses the keys whose value is undefined once it is
\* stored or serialised
DropKey(o, k) == [j \in (DOMAIN o) \ {k} |-> o[j]]

MetricKeys ==
    {"views", "submissions", "conversionRate", "clickThroughRate",
     "submissionRate", "interactions", "nonContactSubmissions"}

(***************************************************************************)
(* Metric derivation.                                                      *)
(***************************************************************************)
\* the literal with submissionsPerFormView taken as it comes
DeriveStatsUnguarded(totals) ==
    [k \in MetricKeys |->
        CASE k = "clickThroughRate"      -> OrZero(totals, "clickThroughPerFormView")
          [] k = "conversionRate"        -> OrZero(totals, "submissionsPerFormView")
          [] k = "interactions"          -> OrZero(totals, "interactions")
          [] k = "nonContactSubmissions" -> OrZero(totals, "nonContactSubmissions")
          [] k = "submissionRate"        -> OrZero(totals, "submissionsPerClickThrough")
          [] k = "submissions"           -> OrZero(totals, "submissions")
          [] OTHER                       -> OrZero(totals, "formViews")]

\* the object literal of syncFormAnalytics, without lastUpdated: the ratio
\* submissionsPerFormView is kept only when it is not above 1
DeriveStats(totals) ==
    IF OrZero(totals, "submissionsPerFormView") > One
    THEN DropKey(DeriveStatsUnguarded(totals), "conversionRate")
    ELSE DeriveStatsUnguarded(totals)

\* analyticsData of syncFormAnalytics
AnalyticsData(totals, stamp) ==
    Spread(DeriveStats(totals), [lastUpdated |-> stamp])

\* the literal with conversionRate taken from submissionsPerFormView as it comes
HandlerStatsUnguarded(totals) ==
    [clickThroughRate |-> OrZero(totals, "clickThroughPerFormView"),
     conversionRate |-> OrZero(totals, "submissionsPerFormView"),
     interactions |-> OrZero(totals, "interactions"),
     nonContactSubmissions |-> OrZero(totals, "nonContactSubmissions"),
     submissionRate |-> OrZero(totals, "submissionsPerClickThrough"),
     submissions |-> OrZero(totals, "submissions"),
     views |-> OrZero(totals, "formViews")]

\* the stats literal of hubspotFormsHandler
HandlerStats(totals) ==
    LET stats ==
          [clickThroughRate |-> OrZero(totals, "clickThroughPerFormView"),
           conversionRate |-> OrZero(totals, "submissionsPerFormView"),
           interactions |-> OrZero(totals, "interactions"),
           nonContactSubmissions |-> OrZero(totals, "nonContactSubmissions"),
           submissionRate |-> OrZero(totals, "submissionsPerClickThrough"),
           submissions |-> OrZero(totals, "submissions"),
           views |-> OrZero(totals, "formViews")]
    IN  IF OrZero(totals, "submissionsPerFormView") > One
        THEN DropKey(stats, "conversionRate")
        ELSE stats

\* the analyticsData literal of refreshFormAnalytics
RefreshAnalyticsData(totals, stamp) ==
    LET data ==
          [clickThroughRate |-> OrZero(totals, "clickThroughPerFormView"),
           conversionRate |-> OrZero(totals, "submissionsPerFormView"),
           interactions |-> OrZero(totals, "interactions"),
           lastUpdated |-> stamp,
           nonContactSubmissions |-> OrZero(totals, "nonContactSubmissions"),
           submissionRate |-> OrZero(totals, "submissionsPerClickThrough"),
           submissions |-> OrZero(totals, "submissions"),
           views |-> OrZero(totals, "formViews")]
    IN  IF OrZero(totals, "submissionsPerFormView") > One
        THEN DropKey(data, "conversionRate")
        ELSE data

\* the stats of a form whose analytics fetch failed in hubspotFormsHandler
ZeroStats == [k \in MetricKeys |-> 0]

(***************************************************************************)
(* The answers of the remote service to one analytics request.             *)
(*   ok      : 2xx with a JSON body; totals is body.totals || {}           *)
(*   r429    : status 429                                                  *)
(*   neterr  : fetch rejects ("fetch failed")                              *)
(*   httperr : another non-2xx status; hasFetch tells whether the body     *)
(*             text, which ends up in the error message, contains "fetch"  *)
(*   badjson : 2xx whose body does not parse; hasFetch tells whether the   *)
(*             message of the parse error contains "fetch"                 *)
(***************************************************************************)
TotalsSamples ==
    { [formViews |-> 100, submissions |-> 10, submissionsPerFormView |-> 10],
      [formViews |-> 4, submissions |-> 6, submissionsPerFormView |-> 150,
       clickThroughPerFormView |-> 50, submissionsPerClickThrough |-> 300,
       interactions |-> 7, nonContactSubmissions |-> 2] }

Answer(kind, totals, hasFetch) ==
    [kind |-> kind, totals |-> totals, hasFetch |-> hasFetch]

Answers ==
    { Answer("ok", t, FALSE) : t \in TotalsSamples }
    \cup { Answer("r429", EmptyObj, FALSE), Answer("neterr", EmptyObj, TRUE) }
    \cup { Answer(k, EmptyObj, b) : k \in {"httperr", "badjson"}, b \in BOOLEAN }

\* the answers the batch run, the refresh and the handler are run against: a
\* member of every class of results of a fetcher; the call taken on its own
\* is run against all of Answers
ProcessAnswers ==
    { a \in Answers : a.kind \in {"ok", "r429"} \/ (a.kind = "httperr" /\ ~ a.hasFetch) }

(***************************************************************************)
(* fetchFormAnalytics (path "sync") and fetchFormAnalyticsWithRetry (path  *)
(* "api").  A frame is the state of one outermost call: attempt is the     *)
(* argument of the innermost recursive call; st is                         *)
(*   "req"    awaiting fetch(...)                                          *)
(*   "wait"   awaiting delay(backoffDelay)                                 *)
(*   "ret"    resolved with value                                          *)
(*   "thrown" rejected with err                                            *)
(* requests counts the requests issued so far, rateLimited those answered  *)
(* 429, last is the kind of the last answer and delays are the backoff     *)
(* delays waited so far.                                                   *)
(* The recursive call is returned, not awaited, so a rejection of an inner *)
(* attempt is not seen by the catch clauses of the outer attempts.         *)
(***************************************************************************)
MaxRetriesOf(path) == IF path = "sync" THEN SYNC_MAX_RETRIES ELSE MAX_RETRIES

\* exponentialBackoff(attempt) of hubspotApi.ts
exponentialBackoff(attempt, jitter) == BASE_RETRY_DELAY * Pow2(attempt) + jitter

\* a backoff that starts long and gets shorter
SyncBackoffShrinking(attempt) == SYNC_BASE_RETRY_DELAY * Pow2(SYNC_MAX_RETRIES - attempt)

\* backoffDelay of fetchFormAnalytics
SyncBackoff(attempt) == SYNC_BASE_RETRY_DELAY * Pow2(attempt)

BackoffOf(path, attempt, jitter) ==
    IF path = "sync" THEN SyncBackoff(attempt) ELSE exponentialBackoff(attempt, jitter)

JitterOf(path) == IF path = "sync" THEN {0} ELSE RandomJitter

NewFrame ==
    [st |-> "req", attempt |-> 0, wait |-> 0, value |-> EmptyObj, err |-> "none",
     requests |-> 0, rateLimited |-> 0, last |-> "none", delays |-> <<>>]

FrameWait(f, d) == [f EXCEPT !.st = "wait", !.wait = d]

FrameThrow(f, e) == [f EXCEPT !.st = "thrown", !.err = e]

\* a catch clause that compares with <= and so retries once more
FetchCatchOnceMore(f, path, e, hasFetch, jitter) ==
    IF f.attempt <= MaxRetriesOf(path) /\ hasFetch
    THEN [f EXCEPT !.st = "wait", !.wait = BackoffOf(path, f.attempt, jitter)]
    ELSE [f EXCEPT !.st = "thrown", !.err = e]

\* the catch clause of both fetchers
FetchCatch(f, path, e, hasFetch, jitter) ==
    IF f.attempt < MaxRetriesOf(path) /\ hasFetch
    THEN FrameWait(f, BackoffOf(path, f.attempt, jitter))
    ELSE FrameThrow(f, e)

\* a status 429 branch that compares with <= and so retries once more
RateLimitedOnceMore(f, path, jitter) ==
    IF f.attempt <= MaxRetriesOf(path)
    THEN FrameWait(f, BackoffOf(path, f.attempt, jitter))
    ELSE FetchCatch(f, path, "RateLimitExceeded", FALSE, jitter)

\* the status 429 branch of both fetchers
RateLimited(f, path, jitter) ==
    IF f.attempt < MaxRetriesOf(path)
    THEN FrameWait(f, BackoffOf(path, f.attempt, jitter))
    ELSE FetchCatch(f, path, "RateLimitExceeded", FALSE, jitter)

\* the body of a fetcher from the answer of fetch(...) to the next await
OnAnswer(f0, path, a, jitter) ==
    LET f == [f0 EXCEPT !.requests = @ + 1, !.last = a.kind,
                        !.rateLimited = IF a.kind = "r429" THEN @ + 1 ELSE @] IN
    CASE a.kind = "r429"    -> RateLimited(f, path, jitter)
      [] a.kind = "neterr"  -> FetchCatch(f, path, "Network", a.hasFetch, jitter)
      [] a.kind = "httperr" -> FetchCatch(f, path, "ApiFailed", a.hasFetch, jitter)
      [] a.kind = "badjson" -> FetchCatch(f, path, "BadJson", a.hasFetch, jitter)
      [] OTHER              -> [f EXCEPT !.st = "ret", !.value = a.totals]

\* a recursive call that passes attempt on as it is
AfterBackoffSameAttempt(f) ==
    [f EXCEPT !.st = "req", !.wait = 0, !.last = "none", !.delays = Append(@, f.wait)]

\* delay(backoffDelay) is over: the recursive call with attempt + 1
AfterBackoff(f) ==
    [f EXCEPT !.st = "req", !.attempt = @ + 1, !.wait = 0, !.last = "none",
              !.delays = Append(@, f.wait)]

(***************************************************************************)
(* One call of fetchFormAnalytics or of fetchFormAnalyticsWithRetry for    *)
(* one form, with every sequence of answers of the remote service.         *)
(***************************************************************************)
Paths == {"sync", "api"}

\* pluginOptions.apiKey and process.env.HUBSPOT_API_KEY; "" when unset
OptKeys == {"", "k1"}

EnvKeys == {"", "k2"}

\* getHubSpotHeaders(pluginOptions): an unset key is interpolated into the
\* template string as the text undefined
getHubSpotHeaders(optKey, envKey) ==
    [Authorization |->
        <<"Bearer", IF optKey # "" THEN optKey ELSE IF envKey # "" THEN envKey ELSE "undefined">>,
     ContentType |-> "application/json"]

\* headers are the headers of the requests the call has issued
IdleCall ==
    [path |-> "sync", started |-> FALSE, optKey |-> "", envKey |-> "",
     headers |-> EmptyObj, frame |-> NewFrame]

\* the fetcher of path is called with attempt = 0 and issues its request
CallStart(path, optKey, envKey) ==
    /\ ~ call.started
    /\ call' = [call EXCEPT !.path = path, !.started = TRUE, !.optKey = optKey,
                            !.envKey = envKey,
                            !.headers = getHubSpotHeaders(optKey, envKey)]
    /\ UNCHANGED <<hook, config, init, endpoint, clock, docs, sync, refresh, formsCache, handler, faults>>

CallAnswer(a, jitter) ==
    /\ call.started
    /\ call.frame.st = "req"
    /\ jitter \in JitterOf(call.path)
    /\ call' = [call EXCEPT !.frame = OnAnswer(@, call.path, a, jitter)]
    /\ UNCHANGED <<hook, config, init, endpoint, clock, docs, sync, refresh, formsCache, handler, faults>>

CallBackoffDone ==
    /\ call.started
    /\ call.frame.st = "wait"
    /\ clock' = clock + call.frame.wait
    /\ call' = [call EXCEPT !.frame = AfterBackoff(@)]
    /\ UNCHANGED <<hook, config, init, endpoint, docs, sync, refresh, formsCache, handler, faults>>

(***************************************************************************)
(* Dates.  now.toISOString() is the calendar day and the time of day;      *)
(* new Date(iso).getTime() puts them together again.                       *)
(***************************************************************************)
DayMs == 24 * 60 * 60 * 1000

toISOString(t) == <<t \div DayMs, t % DayMs>>

getTime(iso) == iso[1] * DayMs + iso[2]

(***************************************************************************)
(* The document store: payload.find and payload.update on the collection   *)
(* hubspot-forms.  A document is [formId, name, analytics]; its id is its  *)
(* place in the collection, which find returns sorted by name.             *)
(***************************************************************************)
\* a failure of the environment (failed) is drawn from the budget MaxFaults
Fault(failed) ==
    /\ failed => faults < MaxFaults
    /\ faults' = IF failed THEN faults + 1 ELSE faults

Doc(formId, analytics) ==
    [formId |-> formId, name |-> <<"stored name of", formId>>, analytics |-> analytics]

\* an update that stores the data as a new record
payloadUpdateUpsert(d, id, analytics) == Append(d, Doc(d[id].formId, analytics))

\* an update that keeps the stored value of every key the data leaves out
payloadUpdateMerge(d, id, analytics) == [d EXCEPT ![id].analytics = Spread(@, analytics)]

\* payload.update({ id, collection, data: { analytics } })
payloadUpdate(d, id, analytics) == [d EXCEPT ![id].analytics = analytics]

\* payload.find({ collection, where: { formId: { equals } } }): the ids
findByFormId(d, formId) ==
    SelectSeq([i \in 1..Len(d) |-> i], LAMBDA i : d[i].formId = formId)

MetricsOf(analytics) ==
    [k \in (DOMAIN analytics) \cap MetricKeys |-> analytics[k]]

(***************************************************************************)
(* syncFormAnalytics.  A run is                                            *)
(*   pc "idle"    not started                                              *)
(*      "find"    awaiting payload.find                                    *)
(*      "pace"    awaiting delay(ANALYTICS_RATE_LIMIT_DELAY)               *)
(*      "fetch"   awaiting fetchFormAnalytics (frame)                      *)
(*      "update"  awaiting payload.update of the try block                 *)
(*      "recover" awaiting payload.update of the catch block               *)
(*      "done"    resolved                                                 *)
(* forms is the result of find, queue is formsToProcess (ids), i the loop  *)
(* index (from 1), toUpdate is formsToUpdate (ids).  fetched, wrote,       *)
(* caught, storeFailed and aborted record what the run did: the ids it     *)
(* called fetchFormAnalytics for, the ids it updated, the ids whose        *)
(* iteration entered the catch block, whether a call of the store was      *)
(* rejected, and whether the outer catch clause was reached.  rejected     *)
(* tells whether the promise of the run was rejected.  paced counts the    *)
(* pacing delays of the run and pacedMs adds them up.  fetchFailed are the  *)
(* ids whose call of fetchFormAnalytics threw, requests counts the         *)
(* analytics requests and updates the calls of payload.update the run has  *)
(* issued.  earlier is the run of the                                      *)
(* process before this one: its now, and its fetchFailed and wrote.        *)
(***************************************************************************)
NoRun == [ran |-> FALSE, now |-> 0, fetchFailed |-> <<>>, wrote |-> <<>>]

IdleSync ==
    [pc |-> "idle", forceRefresh |-> FALSE, now |-> 0, forms |-> <<>>,
     toUpdate |-> <<>>, queue |-> <<>>, i |-> 0, frame |-> NewFrame,
     data |-> EmptyObj, fetched |-> <<>>, wrote |-> <<>>, caught |-> <<>>,
     storeFailed |-> FALSE, aborted |-> FALSE, rejected |-> FALSE,
     paced |-> 0, pacedMs |-> 0, fetchFailed |-> <<>>, requests |-> 0,
     updates |-> 0, earlier |-> NoRun]

\* a filter that keeps every record
NeedsUpdateAlways(form, forceRefresh, now) == TRUE

\* a filter that also takes the records updated exactly 24 hours ago
NeedsUpdateAtLeast(form, forceRefresh, now) ==
    \/ forceRefresh
    \/ ~ Has(form.analytics, "lastUpdated")
    \/ now - getTime(form.analytics["lastUpdated"]) >= ANALYTICS_CACHE_DURATION

\* the predicate of forms.filter
NeedsUpdate(form, forceRefresh, now) ==
    \/ forceRefresh
    \/ ~ Has(form.analytics, "lastUpdated")
    \/ now - getTime(form.analytics["lastUpdated"]) > ANALYTICS_CACHE_DURATION

formsToUpdate(forms, forceRefresh, now) ==
    SelectSeq([i \in 1..Len(forms) |-> i],
              LAMBDA i : NeedsUpdate(forms[i], forceRefresh, now))

\* no cap: every candidate is processed
SliceAll(s, n) == s

\* formsToUpdate.slice(0, n)
Slice(s, n) == SubSeq(s, 1, IF Len(s) < n THEN Len(s) ELSE n)

formsToProcess(forms, forceRefresh, now) ==
    Slice(formsToUpdate(forms, forceRefresh, now), MAX_FORMS_PER_SYNC)

CurrentId(r) == r.queue[r.i]

\* the call of fetchFormAnalytics of iteration i
EnterFetch(r) ==
    [r EXCEPT !.pc = "fetch", !.frame = NewFrame,
              !.fetched = Append(@, r.queue[r.i]), !.requests = @ + 1]

\* a loop that calls the next fetch without the pacing delay
NextIterationUnpaced(r) ==
    IF r.i < Len(r.queue)
    THEN [r EXCEPT !.pc = "fetch", !.i = @ + 1, !.frame = NewFrame,
                   !.fetched = Append(@, r.queue[r.i + 1]), !.requests = @ + 1]
    ELSE [r EXCEPT !.pc = "done"]

\* the end of iteration i: the next iteration starts with the pacing delay
NextIteration(r) ==
    IF r.i < Len(r.queue)
    THEN [r EXCEPT !.pc = "pace", !.i = @ + 1]
    ELSE [r EXCEPT !.pc = "done"]

\* a loop body without a catch clause: the error ends the run
EnterCatchRethrow(r) == [r EXCEPT !.pc = "done", !.aborted = TRUE]

\* a catch clause that only logs and lets the loop go on
EnterCatchSkipWrite(r) ==
    IF r.i < Len(r.queue)
    THEN [r EXCEPT !.pc = "pace", !.i = @ + 1, !.caught = Append(@, r.queue[r.i])]
    ELSE [r EXCEPT !.pc = "done", !.caught = Append(@, r.queue[r.i])]

\* the catch clause of the loop body: errorLog, then payload.update
EnterCatch(r) ==
    [r EXCEPT !.pc = "recover", !.caught = Append(@, r.queue[r.i]), !.updates = @ + 1]

\* an outer catch clause that logs the error and throws it again
SyncOuterCatchRethrow(r) ==
    [r EXCEPT !.pc = "done", !.aborted = TRUE, !.storeFailed = TRUE, !.rejected = TRUE]

\* the outer catch clause: errorLog, and the run resolves
SyncOuterCatch(r) ==
    [r EXCEPT !.pc = "done", !.aborted = TRUE, !.storeFailed = TRUE]

\* a catch clause that writes the loaded analytics back as they are
RecoverDataUnstamped(r) == r.forms[CurrentId(r)].analytics

\* the analytics the catch clause writes
RecoverData(r) ==
    Spread(r.forms[CurrentId(r)].analytics, [lastUpdated |-> toISOString(r.now)])

SyncStart(forceRefresh) ==
    /\ sync.pc = "idle"
    /\ sync' = [IdleSync EXCEPT !.pc = "find", !.forceRefresh = forceRefresh]
    /\ UNCHANGED <<hook, config, init, endpoint, call, clock, docs, refresh, formsCache, handler, faults>>

\* payload.find resolves (ok) or rejects
SyncFind(ok) ==
    /\ sync.pc = "find"
    /\ sync' =
         IF ~ ok THEN SyncOuterCatch(sync)
         ELSE IF Len(docs) = 0 THEN [sync EXCEPT !.pc = "done", !.forms = docs]
         ELSE LET u == formsToUpdate(docs, sync.forceRefresh, clock)
                  q == formsToProcess(docs, sync.forceRefresh, clock)
                  r == [sync EXCEPT !.forms = docs, !.now = clock, !.toUpdate = u,
                                    !.queue = q, !.i = 1]
              IN  IF Len(u) = 0
                  THEN [r EXCEPT !.pc = "done", !.i = 0]
                  ELSE EnterFetch(r)
    /\ UNCHANGED <<hook, config, init, endpoint, call, clock, docs, refresh, formsCache, handler>>
    /\ Fault(~ ok)

\* delay(ANALYTICS_RATE_LIMIT_DELAY) is over
SyncPace ==
    /\ sync.pc = "pace"
    /\ clock' = clock + ANALYTICS_RATE_LIMIT_DELAY
    /\ sync' = EnterFetch([sync EXCEPT !.paced = @ + 1,
                                       !.pacedMs = @ + ANALYTICS_RATE_LIMIT_DELAY])
    /\ UNCHANGED <<hook, config, init, endpoint, call, docs, refresh, formsCache, handler, faults>>

\* the remote service answers the request of fetchFormAnalytics
SyncAnswer(a) ==
    /\ sync.pc = "fetch"
    /\ sync.frame.st = "req"
    /\ LET f == OnAnswer(sync.frame, "sync", a, 0)
           r == [sync EXCEPT !.frame = f]
       IN  sync' =
             CASE f.st = "ret" ->
                    [r EXCEPT !.pc = "update", !.updates = @ + 1,
                              !.data = AnalyticsData(f.value, toISOString(sync.now))]
               [] f.st = "thrown" ->
                    EnterCatch([r EXCEPT !.fetchFailed = Append(@, CurrentId(sync))])
               [] OTHER -> r
    /\ UNCHANGED <<hook, config, init, endpoint, call, clock, docs, refresh, formsCache, handler>>
    /\ Fault(a.kind # "ok")

\* delay(backoffDelay) of fetchFormAnalytics is over
SyncBackoffDone ==
    /\ sync.pc = "fetch"
    /\ sync.frame.st = "wait"
    /\ clock' = clock + sync.frame.wait
    /\ sync' = [sync EXCEPT !.frame = AfterBackoff(@), !.requests = @ + 1]
    /\ UNCHANGED <<hook, config, init, endpoint, call, docs, refresh, formsCache, handler, faults>>

\* payload.update of the try block resolves (ok) or rejects
SyncUpdate(ok) ==
    /\ sync.pc = "update"
    /\ IF ok
       THEN /\ docs' = payloadUpdate(docs, CurrentId(sync), sync.data)
            /\ sync' = NextIteration([sync EXCEPT !.wrote = Append(@, CurrentId(sync))])
       ELSE /\ docs' = docs
            /\ sync' = EnterCatch([sync EXCEPT !.storeFailed = TRUE])
    /\ UNCHANGED <<hook, config, init, endpoint, call, clock, refresh, formsCache, handler>>
    /\ Fault(~ ok)

\* payload.update of the catch block resolves (ok) or rejects; a rejection
\* leaves the loop and is logged by the outer catch clause
SyncRecover(ok) ==
    /\ sync.pc = "recover"
    /\ IF ok
       THEN /\ docs' = payloadUpdate(docs, CurrentId(sync), RecoverData(sync))
            /\ sync' = NextIteration([sync EXCEPT !.wrote = Append(@, CurrentId(sync))])
       ELSE /\ docs' = docs
            /\ sync' = SyncOuterCatch(sync)
    /\ UNCHANGED <<hook, config, init, endpoint, call, clock, refresh, formsCache, handler>>
    /\ Fault(~ ok)

\* the run has resolved and syncFormAnalytics is called once more, when
\* elapsed has passed since the now of the run (since its end, when the run
\* did not get that far)
SyncAgain(forceRefresh, elapsed) ==
    /\ sync.pc = "done"
    /\ sync.earlier = NoRun
    /\ LET from == IF sync.forms = <<>> THEN clock ELSE sync.now
       IN  /\ from + elapsed >= clock
           /\ clock' = from + elapsed
    /\ sync' = [IdleSync EXCEPT !.pc = "find", !.forceRefresh = forceRefresh,
                                !.earlier = [ran |-> TRUE, now |-> sync.now,
                                             fetchFailed |-> sync.fetchFailed,
                                             wrote |-> sync.wrote]]
    /\ UNCHANGED <<hook, config, init, endpoint, call, docs, refresh, formsCache, handler, faults>>

(***************************************************************************)
(* refreshFormAnalytics(payload, pluginOptions, formId).  With a formId:   *)
(*   pc "idle" | "find" | "fetch" | "update" | "done"                      *)
(* and without one (formId ""):                                            *)
(*   pc "idle" | "all" awaiting syncFormAnalytics(..., true) | "done"      *)
(* err is the error the call rejects with ("none" when it resolves).       *)
(***************************************************************************)
FormIds == {"f1", "f2", "fx"}

IdleRefresh ==
    [pc |-> "idle", formId |-> "f1", id |-> 0, frame |-> NewFrame,
     data |-> EmptyObj, err |-> "none", wrote |-> FALSE]

RefreshStart(formId) ==
    /\ refresh.pc = "idle"
    /\ refresh' = [IdleRefresh EXCEPT !.pc = "find", !.formId = formId]
    /\ UNCHANGED <<hook, config, init, endpoint, call, clock, docs, sync, formsCache, handler, faults>>

\* a lookup that returns quietly when no record matches
RefreshFoundOrSkip(r, found) ==
    IF Len(found) = 0 THEN [r EXCEPT !.pc = "done"]
    ELSE [r EXCEPT !.pc = "fetch", !.id = found[1], !.frame = NewFrame]

\* docs.length === 0 throws; otherwise form = docs[0] and the fetch starts
RefreshFound(r, found) ==
    IF Len(found) = 0 THEN [r EXCEPT !.pc = "done", !.err = "NotFound"]
    ELSE [r EXCEPT !.pc = "fetch", !.id = found[1], !.frame = NewFrame]

\* the message of the error the call rejects with
ErrorMessage(err, formId) ==
    IF err = "NotFound" THEN <<"Form with ID", formId, "not found">> ELSE <<err>>

\* the first step of refreshFormAnalytics(payload, pluginOptions, formId)
RefreshEnter(formId) ==
    IF formId # ""
    THEN [IdleRefresh EXCEPT !.pc = "find", !.formId = formId]
    ELSE [IdleRefresh EXCEPT !.pc = "all", !.formId = ""]

\* the first step of syncFormAnalytics(payload, pluginOptions, forceRefresh)
SyncEnter(forceRefresh) ==
    [IdleSync EXCEPT !.pc = "find", !.forceRefresh = forceRefresh]

\* syncFormAnalytics(payload, pluginOptions, true) has settled; a rejection
\* is logged and thrown again
RefreshAllDone ==
    /\ refresh.pc = "all"
    /\ sync.pc = "done"
    /\ refresh' = [refresh EXCEPT !.pc = "done",
                                  !.err = IF sync.rejected THEN "Sync" ELSE "none"]
    /\ UNCHANGED <<hook, config, init, endpoint, call, clock, docs, sync, formsCache, handler, faults>>

\* payload.find resolves (ok) or rejects
RefreshFind(ok) ==
    /\ refresh.pc = "find"
    /\ LET found == findByFormId(docs, refresh.formId) IN
       refresh' =
         IF ~ ok THEN [refresh EXCEPT !.pc = "done", !.err = "Storage"]
         ELSE RefreshFound(refresh, found)
    /\ UNCHANGED <<hook, config, init, endpoint, call, clock, docs, sync, formsCache, handler>>
    /\ Fault(~ ok)

\* the remote service answers the request of fetchFormAnalytics
RefreshAnswer(a) ==
    /\ refresh.pc = "fetch"
    /\ refresh.frame.st = "req"
    /\ LET f == OnAnswer(refresh.frame, "sync", a, 0)
           r == [refresh EXCEPT !.frame = f]
       IN  refresh' =
             CASE f.st = "ret" ->
                    [r EXCEPT !.pc = "update",
                              !.data = RefreshAnalyticsData(f.value, toISOString(clock))]
               [] f.st = "thrown" -> [r EXCEPT !.pc = "done", !.err = f.err]
               [] OTHER -> r
    /\ UNCHANGED <<hook, config, init, endpoint, call, clock, docs, sync, formsCache, handler>>
    /\ Fault(a.kind # "ok")

RefreshBackoffDone ==
    /\ refresh.pc = "fetch"
    /\ refresh.frame.st = "wait"
    /\ clock' = clock + refresh.frame.wait
    /\ refresh' = [refresh EXCEPT !.frame = AfterBackoff(@)]
    /\ UNCHANGED <<hook, config, init, endpoint, call, docs, sync, formsCache, handler, faults>>

\* payload.update resolves (ok) or rejects
RefreshUpdate(ok) ==
    /\ refresh.pc = "update"
    /\ IF ok
       THEN /\ docs' = payloadUpdate(docs, refresh.id, refresh.data)
            /\ refresh' = [refresh EXCEPT !.pc = "done", !.wrote = TRUE]
       ELSE /\ docs' = docs
            /\ refresh' = [refresh EXCEPT !.pc = "done", !.err = "Storage"]
    /\ UNCHANGED <<hook, config, init, endpoint, call, clock, sync, formsCache, handler>>
    /\ Fault(~ ok)

(***************************************************************************)
(* hubspotFormsHandler and formsCache.  A request is                       *)
(*   pc "idle"  not received                                               *)
(*      "list"  awaiting fetch of /forms/v2/forms                          *)
(*      "pace"  awaiting delay(RATE_LIMIT_DELAY)                           *)
(*      "fetch" awaiting fetchFormAnalyticsWithRetry (frame)               *)
(*      "done"  answered with status and body                              *)
(* forms is the remote list (guids), i the loop index (from 1).            *)
(* remoteCalls counts the remote requests the handler issued; hit,         *)
(* sawEntry and sawAge record what the request found when it was received: *)
(* whether it was answered from the cache, whether an entry existed and    *)
(* how long ago that entry had been put.  putAt of the cache entry is the  *)
(* moment of the assignment to formsCache; the code does not keep it.      *)
(***************************************************************************)
HandlerIds == {"h1", "h2"}

IdleHandler ==
    [pc |-> "idle", forceRefresh |-> FALSE, now |-> 0, forms |-> <<>>, i |-> 0,
     frame |-> NewFrame, formsWithStats |-> <<>>, status |-> 0, body |-> <<>>,
     remoteCalls |-> 0, paced |-> 0, pacedMs |-> 0, hit |-> FALSE, sawEntry |-> FALSE, sawAge |-> 0]

\* the entry put by a request received at now
CacheEntryAt(data, now, putAt) ==
    [present |-> TRUE, data |-> data, timestamp |-> now, putAt |-> putAt]

\* the condition of the early return; formsCache.data is an array, which is
\* truthy even when it is empty
CacheHit(cache, forceRefresh, now) ==
    /\ ~ forceRefresh
    /\ cache.present
    /\ now - cache.timestamp < CACHE_DURATION

\* the response of a request; status 200 is the default of new Response
Respond(r, status, body) == [r EXCEPT !.pc = "done", !.status = status, !.body = body]

\* the call of fetchFormAnalyticsWithRetry of iteration i
HandlerEnterFetch(r) ==
    [r EXCEPT !.pc = "fetch", !.frame = NewFrame, !.remoteCalls = @ + 1]

\* a request arrives; it is answered from the cache or asks for the forms
HandlerRequest(h, forceRefresh) ==
    /\ handler[h].pc = "idle"
    /\ LET r == [handler[h] EXCEPT
                    !.forceRefresh = forceRefresh, !.now = clock,
                    !.sawEntry = formsCache.present,
                    !.sawAge = IF formsCache.present THEN clock - formsCache.putAt ELSE 0]
       IN  handler' =
             [handler EXCEPT ![h] =
                IF CacheHit(formsCache, forceRefresh, clock)
                THEN Respond([r EXCEPT !.hit = TRUE], 200, formsCache.data)
                ELSE [r EXCEPT !.pc = "list", !.remoteCalls = 1]]
    /\ UNCHANGED <<hook, config, init, endpoint, call, clock, docs, sync, refresh, formsCache, faults>>

\* the loop is over: the cache is updated and the response is sent
HandlerFinish(r) == Respond(r, 200, r.formsWithStats)

\* the end of iteration i
HandlerNextIteration(r) ==
    IF r.i < Len(r.forms)
    THEN [r EXCEPT !.pc = "pace", !.i = @ + 1]
    ELSE HandlerFinish(r)

\* a handler that drops the entry when it answers with an error
CacheAfterClearing(r) ==
    IF r.pc = "done" /\ r.status = 200 /\ ~ r.hit
    THEN CacheEntryAt(r.formsWithStats, r.now, clock)
    ELSE IF r.pc = "done" /\ r.status = 500
    THEN [present |-> FALSE, data |-> <<>>, timestamp |-> 0, putAt |-> 0]
    ELSE formsCache

\* what a step that leaves request h as r does to the cache
CacheAfter(r) ==
    IF r.pc = "done" /\ r.status = 200 /\ ~ r.hit
    THEN CacheEntryAt(r.formsWithStats, r.now, clock)
    ELSE formsCache

\* the forms request is answered: ok with the list forms, or it fails
\* (rejected, non-2xx, or a body that does not parse)
HandlerList(h, ok, forms) ==
    /\ handler[h].pc = "list"
    /\ LET r == IF ~ ok
                THEN Respond(handler[h], 500, <<>>)
                ELSE IF Len(forms) = 0
                THEN HandlerFinish([handler[h] EXCEPT !.forms = forms])
                ELSE HandlerEnterFetch([handler[h] EXCEPT !.forms = forms, !.i = 1])
       IN  /\ handler' = [handler EXCEPT ![h] = r]
           /\ formsCache' = CacheAfter(r)
    /\ Fault(~ ok)
    /\ UNCHANGED <<hook, config, init, endpoint, call, clock, docs, sync, refresh>>

\* delay(RATE_LIMIT_DELAY) is over
HandlerPace(h) ==
    /\ handler[h].pc = "pace"
    /\ clock' = clock + RATE_LIMIT_DELAY
    /\ handler' = [handler EXCEPT ![h] = HandlerEnterFetch([@ EXCEPT !.paced = @ + 1,
                                                     !.pacedMs = @ + RATE_LIMIT_DELAY])]
    /\ UNCHANGED <<hook, config, init, endpoint, call, docs, sync, refresh, formsCache, faults>>

StatsEntry(guid, stats) == [guid |-> guid, stats |-> stats]

\* the remote service answers the request of fetchFormAnalyticsWithRetry
HandlerAnswer(h, a, jitter) ==
    /\ handler[h].pc = "fetch"
    /\ handler[h].frame.st = "req"
    /\ LET r0 == handler[h]
           f == OnAnswer(r0.frame, "api", a, jitter)
           guid == r0.forms[r0.i]
           r == CASE f.st = "ret" ->
                       HandlerNextIteration(
                           [r0 EXCEPT !.frame = f, !.formsWithStats =
                                Append(@, StatsEntry(guid, HandlerStats(f.value)))])
                  [] f.st = "thrown" ->
                       HandlerNextIteration(
                           [r0 EXCEPT !.frame = f, !.formsWithStats =
                                Append(@, StatsEntry(guid, ZeroStats))])
                  [] OTHER -> [r0 EXCEPT !.frame = f]
       IN  /\ handler' = [handler EXCEPT ![h] = r]
           /\ formsCache' = CacheAfter(r)
    /\ Fault(a.kind # "ok")
    /\ UNCHANGED <<hook, config, init, endpoint, call, clock, docs, sync, refresh>>

\* delay(backoffDelay) of fetchFormAnalyticsWithRetry is over
HandlerBackoffDone(h) ==
    /\ handler[h].pc = "fetch"
    /\ handler[h].frame.st = "wait"
    /\ clock' = clock + handler[h].frame.wait
    /\ handler' = [handler EXCEPT ![h].frame = AfterBackoff(@),
                                  ![h].remoteCalls = @ + 1]
    /\ UNCHANGED <<hook, config, init, endpoint, call, docs, sync, refresh, formsCache, faults>>

(***************************************************************************)
(* config.onInit of the plugin (index.ts).  A call is                      *)
(*   pc "idle"  not called                                                 *)
(*      "hook"  awaiting incomingOnInit(payload)                           *)
(*      "probe" awaiting fetch of /forms/v2/forms?limit=1                  *)
(*      "done"  settled; thrown tells whether it was rejected              *)
(* hasHook tells whether config.onInit was set before the plugin ran;      *)
(* optKey and envKey are pluginOptions.apiKey and HUBSPOT_API_KEY ("" when *)
(* unset).  hookCalls, hookDone, keyResolved, remoteCalls, probe, timers   *)
(* and log record what the call did: the calls of the earlier hook and     *)
(* whether it has settled, whether the key was looked up, the remote       *)
(* requests issued, the outcome of the request, the timers set and the     *)
(* lines written to the console.  timer is the timer set by setTimeout     *)
(* ("none", "pending", "fired") and scheduledAt the moment it was set.     *)
(* cb is the callback of the timer:                                        *)
(*      "idle" | "import" awaiting import() | "run" awaiting               *)
(*      syncFormAnalytics | "done"; escaped tells whether it was rejected. *)
(***************************************************************************)
SETTLE_DELAY == 5000

ProbeAnswers == {"ok", "non2xx", "rejected"}

\* the forms of the remote service, as GET /forms/v2/forms lists them: one
\* whose guid is the formId of a tracked record, and one that is not tracked
RemoteForms ==
    << [guid |-> "f1", name |-> <<"remote name of", "f1">>],
       [guid |-> "g9", name |-> <<"remote name of", "g9">>] >>

IdleInit ==
    [pc |-> "idle", hasHook |-> FALSE, optKey |-> "", envKey |-> "", apiKey |-> "",
     hookCalls |-> 0, hookDone |-> FALSE, keyResolved |-> FALSE, remoteCalls |-> 0,
     probe |-> "none", timers |-> 0, timer |-> "none", scheduledAt |-> 0,
     thrown |-> FALSE, log |-> <<>>, cb |-> "idle", escaped |-> FALSE]

\* pluginOptions.apiKey || process.env.HUBSPOT_API_KEY, then the early
\* return or the request that tests the connection
ResolveKey(r) ==
    LET apiKey == IF r.optKey # "" THEN r.optKey ELSE r.envKey
        k == [r EXCEPT !.keyResolved = TRUE, !.apiKey = apiKey]
    IN  IF apiKey = ""
        THEN [k EXCEPT !.pc = "done"]
        ELSE [k EXCEPT !.pc = "probe", !.remoteCalls = @ + 1]

\* a hook that replaces the earlier one instead of chaining it
OnInitBodyUnchained(r) == ResolveKey(r)

\* the start of the hook: the earlier hook, if there is one, is called first
OnInitBody(r) ==
    IF r.hasHook
    THEN [r EXCEPT !.pc = "hook", !.hookCalls = @ + 1]
    ELSE ResolveKey(r)

\* a timer that is due at once
TimerDueAtOnce(scheduledAt) == scheduledAt

\* the moment the timer set at scheduledAt is due
TimerDue(scheduledAt) == scheduledAt + SETTLE_DELAY

\* the connection test succeeded: setTimeout, and the hook returns
ProbeOk(r, now) ==
    [r EXCEPT !.pc = "done", !.probe = "ok", !.timers = @ + 1,
              !.timer = "pending", !.scheduledAt = now]

\* the catch clause of the hook: the error is dropped
OnInitCatch(r, kind) == [r EXCEPT !.pc = "done", !.probe = kind]

\* the host calls config.onInit
OnInit(hasHook, optKey, envKey) ==
    /\ init.pc = "idle"
    /\ init' = OnInitBody([IdleInit EXCEPT !.hasHook = hasHook, !.optKey = optKey,
                                           !.envKey = envKey])
    /\ UNCHANGED <<hook, config, clock, docs, sync, refresh, formsCache, handler, faults, call, endpoint>>

\* incomingOnInit resolves (ok) or rejects; its rejection is outside the try
\* block and rejects the hook
OnInitHookDone(ok) ==
    /\ init.pc = "hook"
    /\ init' = IF ok
               THEN ResolveKey([init EXCEPT !.hookDone = TRUE])
               ELSE [init EXCEPT !.pc = "done", !.hookDone = TRUE, !.thrown = TRUE]
    /\ Fault(~ ok)
    /\ UNCHANGED <<hook, config, clock, docs, sync, refresh, formsCache, handler, call, endpoint>>

\* the request that tests the connection is answered
OnInitProbe(kind) ==
    /\ init.pc = "probe"
    /\ init' = IF kind = "ok" THEN ProbeOk(init, clock) ELSE OnInitCatch(init, kind)
    /\ Fault(kind # "ok")
    /\ UNCHANGED <<hook, config, clock, docs, sync, refresh, formsCache, handler, call, endpoint>>

\* the timer fires and its callback starts
TimerFire ==
    /\ init.timer = "pending"
    /\ LET due == TimerDue(init.scheduledAt)
       IN  clock' = IF clock < due THEN due ELSE clock
    /\ init' = [init EXCEPT !.timer = "fired", !.cb = "import"]
    /\ UNCHANGED <<hook, config, docs, sync, refresh, formsCache, handler, faults, call, endpoint>>

\* import('./utils/syncFormAnalytics.js') resolves (ok), and the callback
\* calls syncFormAnalytics(payload, pluginOptions), or rejects
CallbackImport(ok) ==
    /\ init.cb = "import"
    /\ sync.pc = "idle"
    /\ IF ok
       THEN /\ init' = [init EXCEPT !.cb = "run"]
            /\ sync' = [IdleSync EXCEPT !.pc = "find"]
       ELSE /\ init' = [init EXCEPT !.cb = "done"]
            /\ sync' = sync
    /\ Fault(~ ok)
    /\ UNCHANGED <<hook, config, clock, docs, refresh, formsCache, handler, call, endpoint>>

\* syncFormAnalytics has settled; a rejection is caught by the callback
CallbackDone ==
    /\ init.cb = "run"
    /\ sync.pc = "done"
    /\ init' = [init EXCEPT !.cb = "done"]
    /\ UNCHANGED <<hook, config, clock, docs, sync, refresh, formsCache, handler, faults, call, endpoint>>

(***************************************************************************)
(* The handler of POST /hubspot/refresh-analytics/:formId? (index.ts).     *)
(*   pc "idle"  not received                                               *)
(*      "setup" awaiting the imports and getPayload                        *)
(*      "run"   awaiting refreshFormAnalytics                              *)
(*      "done"  answered                                                   *)
(* formId is req.routeParams.formId ("" when the segment is absent).       *)
(* status, success and details are the response: its status, the success   *)
(* field of a successful body and the details field of an error body.      *)
(***************************************************************************)
IdleEndpoint ==
    [pc |-> "idle", formId |-> "", status |-> 0, success |-> FALSE, details |-> <<>>]

\* new Response(JSON.stringify({ message, success: true }))
EndpointSuccess(r) == [r EXCEPT !.pc = "done", !.status = 200, !.success = TRUE]

\* the catch clause: status 500 with the message of the error in details
EndpointFailure(r, message) ==
    [r EXCEPT !.pc = "done", !.status = 500, !.details = message]

EndpointRequest(formId) ==
    /\ endpoint.pc = "idle"
    /\ endpoint' = [IdleEndpoint EXCEPT !.pc = "setup", !.formId = formId]
    /\ UNCHANGED <<hook, config, init, call, clock, docs, sync, refresh, formsCache, handler, faults>>

\* the imports and getPayload resolve (ok), and refreshFormAnalytics is
\* called, or one of them rejects
EndpointSetup(ok) ==
    /\ endpoint.pc = "setup"
    /\ refresh.pc = "idle"
    /\ sync.pc = "idle"
    /\ IF ok
       THEN /\ endpoint' = [endpoint EXCEPT !.pc = "run"]
            /\ refresh' = RefreshEnter(endpoint.formId)
            /\ sync' = IF endpoint.formId = "" THEN SyncEnter(TRUE) ELSE sync
       ELSE /\ endpoint' = EndpointFailure(endpoint, <<"Setup">>)
            /\ UNCHANGED <<refresh, sync>>
    /\ Fault(~ ok)
    /\ UNCHANGED <<hook, config, init, call, clock, docs, formsCache, handler>>

\* refreshFormAnalytics has settled
EndpointRespond ==
    /\ endpoint.pc = "run"
    /\ refresh.pc = "done"
    /\ endpoint' = IF refresh.err = "none"
                   THEN EndpointSuccess(endpoint)
                   ELSE EndpointFailure(endpoint, ErrorMessage(refresh.err, refresh.formId))
    /\ UNCHANGED <<hook, config, init, call, clock, docs, sync, refresh, formsCache, handler, faults>>

(***************************************************************************)
(* payloadHubspot(pluginOptions)(config) (index.ts).  A config is          *)
(*   collections      the collections, each [slug, fields]; hasCollections *)
(*                    tells whether the property is defined                *)
(*   endpoints        the endpoints, each <<method, path>>; hasEndpoints   *)
(*   beforeDashboard  whether admin.components.beforeDashboard is defined  *)
(*   onInit           "none", "incoming" (a hook of the host), or          *)
(*                    <<"plugin", h>>: the hook of the plugin wrapped      *)
(*                    around h                                             *)
(* The variable config holds the config the plugin was given (incoming),   *)
(* the one it returned (result), and pluginOptionsGlobal (options).        *)
(***************************************************************************)
Cfg(hasCollections, collections, hasEndpoints, endpoints, onInit) ==
    [hasCollections |-> hasCollections, collections |-> collections,
     hasEndpoints |-> hasEndpoints, endpoints |-> endpoints,
     beforeDashboard |-> FALSE, onInit |-> onInit]

HostConfig(cfg) ==
    [applied |-> FALSE, options |-> [disabled |-> FALSE, collections |-> {}], incoming |-> cfg, result |-> cfg]

EmptyCfg == Cfg(FALSE, <<>>, FALSE, <<>>, "none")

Collection(slug, fields) == [slug |-> slug, fields |-> fields]

HubspotForms == Collection("hubspot-forms", <<"formId", "name", "analytics">>)

PluginEndpoints ==
    << <<"get", "/hubspot/forms">>,
       <<"get", "/hubspot/form-analytics/:formGuid">>,
       <<"post", "/hubspot/refresh-analytics/:formId?">>,
       <<"get", "/my-plugin-endpoint">> >>

\* config.collections.find(c => c.slug === slug): the first one, 0 if none
FindCollection(collections, slug) ==
    IF \E i \in 1..Len(collections) : collections[i].slug = slug
    THEN CHOOSE i \in 1..Len(collections) :
            /\ collections[i].slug = slug
            /\ \A j \in 1..(i - 1) : collections[j].slug # slug
    ELSE 0

\* the hubspot-forms collection is pushed, and every collection named in
\* pluginOptions.collections gets the field addedByPlugin
WithCollections(c, options) ==
    LET all == Append(IF c.hasCollections THEN c.collections ELSE <<>>, HubspotForms)
        hit == { FindCollection(all, slug) : slug \in options.collections }
    IN  [c EXCEPT !.hasCollections = TRUE,
                  !.collections =
                      [i \in 1..Len(all) |->
                          IF i \in hit
                          THEN Collection(all[i].slug, Append(all[i].fields, "addedByPlugin"))
                          ELSE all[i]]]

\* the endpoints are pushed, admin.components.beforeDashboard is created and
\* config.onInit is wrapped
RegisterAll(c) ==
    [c EXCEPT !.hasEndpoints = TRUE,
              !.endpoints = (IF c.hasEndpoints THEN c.endpoints ELSE <<>>) \o PluginEndpoints,
              !.beforeDashboard = TRUE,
              !.onInit = <<"plugin", c.onInit>>]

\* a plugin that does not look at pluginOptions.disabled
payloadHubspotAlways(options, c) == RegisterAll(WithCollections(c, options))

payloadHubspot(options, c) ==
    IF options.disabled
    THEN WithCollections(c, options)
    ELSE RegisterAll(WithCollections(c, options))

\* the host applies the plugin to its config
ApplyPlugin(disabled, collections) ==
    /\ ~ config.applied
    /\ LET options == [disabled |-> disabled, collections |-> collections]
       IN  config' = [config EXCEPT !.applied = TRUE, !.options = options,
                                    !.result = payloadHubspot(options, config.incoming)]
    /\ UNCHANGED <<hook, clock, docs, sync, refresh, formsCache, handler, faults, call, init, endpoint>>

(***************************************************************************)
(* The beforeChange hook of the collection hubspot-forms (index.ts).  A    *)
(* call is                                                                 *)
(*   pc "idle"  not called                                                 *)
(*      "fetch" awaiting fetch of /forms/v2/forms                          *)
(*      "json"  awaiting response.json()                                   *)
(*      "done"  settled: result is "returned" (with out) or "thrown"       *)
(*              (with err)                                                 *)
(* data is the data of the save: formId and name, "" when absent.          *)
(* remoteCalls, response and list record what the call did and met: the    *)
(* requests it issued, how the request was answered, and the list of forms *)
(* the body held.                                                          *)
(***************************************************************************)
IdleHook ==
    [pc |-> "idle", operation |-> "create", data |-> [formId |-> "", name |-> ""],
     optKey |-> "", envKey |-> "", remoteCalls |-> 0, response |-> "none",
     list |-> <<>>, result |-> "none", out |-> [formId |-> "", name |-> ""],
     err |-> <<>>]

HookReturn(r, data) == [r EXCEPT !.pc = "done", !.result = "returned", !.out = data]

HookThrow(r, message) == [r EXCEPT !.pc = "done", !.result = "thrown", !.err = message]

\* the catch clause: the error is thrown again under another message
HookCatch(r, message) ==
    HookThrow(r, <<"Unable to validate form ID with HubSpot">> \o message)

\* a hook that looks the name up whatever the operation is
NeedsNameOnAnyOperation(data, operation) == data.formId # "" /\ data.name = ""

\* data.formId && operation === 'create' && !data.name
NeedsName(data, operation) ==
    data.formId # "" /\ operation = "create" /\ data.name = ""

\* forms.find(f => f.guid === formId): the first one, 0 if none
FindForm(forms, formId) ==
    IF \E j \in 1..Len(forms) : forms[j].guid = formId
    THEN CHOOSE j \in 1..Len(forms) :
            /\ forms[j].guid = formId
            /\ \A k \in 1..(j - 1) : forms[k].guid # formId
    ELSE 0

\* the store calls the hook before it saves data
BeforeChange(operation, formId, name, optKey, envKey) ==
    /\ hook.pc = "idle"
    /\ LET data == [formId |-> formId, name |-> name]
           r == [hook EXCEPT !.operation = operation, !.data = data,
                             !.optKey = optKey, !.envKey = envKey]
           apiKey == IF optKey # "" THEN optKey ELSE envKey
       IN  hook' =
             IF ~ NeedsName(data, operation) THEN HookReturn(r, data)
             ELSE IF apiKey = ""
             THEN HookThrow(r, <<"HubSpot API key not configured. Cannot validate form ID.">>)
             ELSE [r EXCEPT !.pc = "fetch", !.remoteCalls = @ + 1]
    /\ UNCHANGED <<config, clock, docs, sync, refresh, formsCache, handler, faults, call, init, endpoint>>

\* the request for the forms is answered
HookResponse(kind) ==
    /\ hook.pc = "fetch"
    /\ LET r == [hook EXCEPT !.response = kind]
       IN  hook' =
             CASE kind = "ok" -> [r EXCEPT !.pc = "json"]
               [] kind = "non2xx" ->
                    HookCatch(r, <<"Unable to connect to HubSpot API to validate form ID">>)
               [] OTHER -> HookCatch(r, <<"fetch failed">>)
    /\ UNCHANGED <<config, clock, docs, sync, refresh, formsCache, handler, faults, call, init, endpoint>>

\* response.json() resolves with forms (ok) or rejects
HookJson(ok, forms) ==
    /\ hook.pc = "json"
    /\ LET j == FindForm(forms, hook.data.formId)
       IN  hook' =
             IF ~ ok THEN HookCatch([hook EXCEPT !.response = "badjson"], <<"Unexpected token">>)
             ELSE IF j # 0
             THEN HookReturn([hook EXCEPT !.list = forms],
                             [hook.data EXCEPT !.name = forms[j].name])
             ELSE HookCatch([hook EXCEPT !.list = forms],
                            <<"Form with ID", hook.data.formId, "not found in HubSpot">>)
    /\ UNCHANGED <<config, clock, docs, sync, refresh, formsCache, handler, faults, call, init, endpoint>>

(***************************************************************************)
(* The synchronizer on a collection of two tracked forms: batch runs and   *)
(* single-form refreshes, which may overlap.                               *)
(***************************************************************************)
StartClock == 2 * DayMs

\* a snapshot captured a little more than 24 hours ago
StaleAnalytics ==
    AnalyticsData([formViews |-> 9, submissions |-> 3, submissionsPerFormView |-> 33],
                  toISOString(StartClock - ANALYTICS_CACHE_DURATION - 1))

\* a snapshot captured exactly 24 hours ago, of a form that reported a ratio > 1
FreshAnalytics ==
    AnalyticsData([formViews |-> 2, submissions |-> 8, submissionsPerFormView |-> 400,
                   interactions |-> 1],
                  toISOString(StartClock - ANALYTICS_CACHE_DURATION))

\* the tracked forms f1 and f2; a form added by the operator has no analytics
InitialDocs ==
    { <<Doc("f1", EmptyObj), Doc("f2", StaleAnalytics)>>,
      <<Doc("f1", FreshAnalytics), Doc("f2", StaleAnalytics)>> }

\* formsCache = null
NoCache == [present |-> FALSE, data |-> <<>>, timestamp |-> 0, putAt |-> 0]

Advance(d) ==
    /\ \A h \in HandlerIds : handler[h].pc \in {"idle", "done"}
    /\ \E h \in HandlerIds : handler[h].pc = "done"
    /\ clock + d <= StartClock + CACHE_DURATION
    /\ clock' = clock + d
    /\ UNCHANGED <<hook, config, init, endpoint, call, docs, sync, refresh, formsCache, handler, faults>>

\* nothing has been started
InitIdle ==
    /\ clock = StartClock
    /\ sync = IdleSync
    /\ refresh = IdleRefresh
    /\ formsCache = NoCache
    /\ handler = [h \in HandlerIds |-> IdleHandler]
    /\ faults = 0
    /\ init = IdleInit
    /\ endpoint = IdleEndpoint
    /\ config = HostConfig(EmptyCfg)
    /\ hook = IdleHook

InitSync ==
    /\ InitIdle
    /\ docs \in InitialDocs
    /\ call = IdleCall

NextSync ==
    \/ \E b \in BOOLEAN : SyncStart(b)
    \/ \E ok \in BOOLEAN : SyncFind(ok)
    \/ SyncPace
    \/ \E a \in ProcessAnswers : SyncAnswer(a)
    \/ SyncBackoffDone
    \/ \E ok \in BOOLEAN : SyncUpdate(ok)
    \/ \E ok \in BOOLEAN : SyncRecover(ok)
    \/ \E f \in FormIds : RefreshStart(f)
    \/ \E ok \in BOOLEAN : RefreshFind(ok)
    \/ \E a \in ProcessAnswers : RefreshAnswer(a)
    \/ RefreshBackoffDone
    \/ \E ok \in BOOLEAN : RefreshUpdate(ok)

SpecSync == InitSync /\ [][NextSync]_vars

(***************************************************************************)
(* Two batch runs of one process, the second one a while after the first:  *)
(* an hour, or 24 hours to the millisecond, less one, or more one.  The    *)
(* collection holds two forms, or none.                                    *)
(***************************************************************************)
InitAgain ==
    /\ InitIdle
    /\ docs \in InitialDocs \cup {<<>>}
    /\ call = IdleCall

NextAgain ==
    \/ \E b \in BOOLEAN : SyncStart(b)
    \/ \E ok \in BOOLEAN : SyncFind(ok)
    \/ SyncPace
    \/ \E a \in ProcessAnswers : SyncAnswer(a)
    \/ SyncBackoffDone
    \/ \E ok \in BOOLEAN : SyncUpdate(ok)
    \/ \E ok \in BOOLEAN : SyncRecover(ok)
    \/ \E b \in BOOLEAN, e \in { 60 * 60 * 1000, ANALYTICS_CACHE_DURATION - 1, ANALYTICS_CACHE_DURATION, ANALYTICS_CACHE_DURATION + 1 } : SyncAgain(b, e)

SpecAgain == InitAgain /\ [][NextAgain]_vars

(***************************************************************************)
(* The interactive endpoint: two requests, which may overlap, and the      *)
(* passage of time between and during them.                                *)
(***************************************************************************)
\* the jitter of the handler's retries; the call taken on its own draws from
\* all of RandomJitter
HandlerJitter == {999}

NextHandler ==
    \/ \E h \in HandlerIds, b \in BOOLEAN : HandlerRequest(h, b)
    \/ \E h \in HandlerIds, ok \in BOOLEAN, l \in { <<>>, <<"g1", "g2">> } : HandlerList(h, ok, l)
    \/ \E h \in HandlerIds : HandlerPace(h)
    \/ \E h \in HandlerIds, a \in ProcessAnswers, j \in HandlerJitter : HandlerAnswer(h, a, j)
    \/ \E h \in HandlerIds : HandlerBackoffDone(h)
    \/ \E d \in {CACHE_DURATION - RATE_LIMIT_DELAY, CACHE_DURATION} : Advance(d)

InitHandler ==
    /\ InitIdle
    /\ docs = <<Doc("f1", EmptyObj), Doc("f2", StaleAnalytics)>>
    /\ call = IdleCall

SpecHandler == InitHandler /\ [][NextHandler]_vars

(***************************************************************************)
(* A single call of either fetcher.                                        *)
(***************************************************************************)
InitFetch ==
    /\ InitIdle
    /\ docs = <<Doc("f1", EmptyObj), Doc("f2", StaleAnalytics)>>
    /\ call = IdleCall

NextFetch ==
    \/ \E p \in Paths, o \in OptKeys, e \in EnvKeys : CallStart(p, o, e)
    \/ \E a \in Answers, j \in RandomJitter : CallAnswer(a, j)
    \/ CallBackoffDone

SpecFetch == InitFetch /\ [][NextFetch]_vars

(***************************************************************************)
(* A start of the host process: onInit, and the batch run its timer starts.*)
(***************************************************************************)
InitStartup ==
    /\ InitIdle
    /\ docs \in InitialDocs
    /\ call = IdleCall

NextStartup ==
    \/ \E h \in BOOLEAN, o \in OptKeys, e \in EnvKeys : OnInit(h, o, e)
    \/ \E ok \in BOOLEAN : OnInitHookDone(ok)
    \/ \E k \in ProbeAnswers : OnInitProbe(k)
    \/ TimerFire
    \/ \E ok \in BOOLEAN : CallbackImport(ok)
    \/ CallbackDone
    \/ \E ok \in BOOLEAN : SyncFind(ok)
    \/ SyncPace
    \/ \E a \in ProcessAnswers : SyncAnswer(a)
    \/ SyncBackoffDone
    \/ \E ok \in BOOLEAN : SyncUpdate(ok)
    \/ \E ok \in BOOLEAN : SyncRecover(ok)

SpecStartup == InitStartup /\ [][NextStartup]_vars

(***************************************************************************)
(* One request to the refresh endpoint, for one form or for all of them.   *)
(***************************************************************************)
InitEndpoint ==
    /\ InitIdle
    /\ docs \in InitialDocs
    /\ call = IdleCall

NextEndpoint ==
    \/ \E f \in FormIds \cup {""} : EndpointRequest(f)
    \/ \E ok \in BOOLEAN : EndpointSetup(ok)
    \/ EndpointRespond
    \/ \E ok \in BOOLEAN : RefreshFind(ok)
    \/ \E a \in ProcessAnswers : RefreshAnswer(a)
    \/ RefreshBackoffDone
    \/ \E ok \in BOOLEAN : RefreshUpdate(ok)
    \/ RefreshAllDone
    \/ \E ok \in BOOLEAN : SyncFind(ok)
    \/ SyncPace
    \/ \E a \in ProcessAnswers : SyncAnswer(a)
    \/ SyncBackoffDone
    \/ \E ok \in BOOLEAN : SyncUpdate(ok)
    \/ \E ok \in BOOLEAN : SyncRecover(ok)

SpecEndpoint == InitEndpoint /\ [][NextEndpoint]_vars

(***************************************************************************)
(* The three places that derive a snapshot from the totals of a response:  *)
(* a forced batch run, a single-form refresh and a recompute of the        *)
(* endpoint, each on answers that carry one of TotalsInputs.  Nothing      *)
(* fails here.                                                             *)
(***************************************************************************)
TotalsInputs ==
    TotalsSamples \cup
    { EmptyObj,
      [submissionsPerFormView |-> One],
      [submissionsPerFormView |-> One + 1, formViews |-> 0],
      [submissions |-> 5, interactions |-> 3, clickThroughPerFormView |-> 101] }

DeriveAnswers == { Answer("ok", t, FALSE) : t \in TotalsInputs }

InitDerive ==
    /\ InitIdle
    /\ docs = <<Doc("f1", EmptyObj), Doc("f2", StaleAnalytics)>>
    /\ call = IdleCall

NextDerive ==
    \/ SyncStart(TRUE)
    \/ SyncFind(TRUE)
    \/ SyncPace
    \/ \E a \in DeriveAnswers : SyncAnswer(a)
    \/ SyncUpdate(TRUE)
    \/ RefreshStart("f1")
    \/ RefreshFind(TRUE)
    \/ \E a \in DeriveAnswers : RefreshAnswer(a)
    \/ RefreshUpdate(TRUE)
    \/ HandlerRequest("h1", FALSE)
    \/ HandlerList("h1", TRUE, <<"g1">>)
    \/ \E a \in DeriveAnswers : HandlerAnswer("h1", a, 0)

SpecDerive == InitDerive /\ [][NextDerive]_vars

(***************************************************************************)
(* The plugin applied to a config of the host.                             *)
(***************************************************************************)
InitialConfigs ==
    { Cfg(FALSE, <<>>, he, e, h) :
        he \in BOOLEAN, e \in { <<>>, << <<"get", "/health">> >> }, h \in {"none", "incoming"} }
    \cup
    { Cfg(TRUE, c, he, e, h) :
        c \in { <<>>, <<Collection("pages", <<>>)>>, <<Collection("pages", <<"title">>), Collection("posts", <<>>)>> }, he \in BOOLEAN, e \in { <<>>, << <<"get", "/health">> >> }, h \in {"none", "incoming"} }

WellFormed(cfg) ==
    /\ ~ cfg.hasCollections => cfg.collections = <<>>
    /\ ~ cfg.hasEndpoints => cfg.endpoints = <<>>

InitPlugin ==
    /\ clock = StartClock
    /\ docs = <<Doc("f1", EmptyObj), Doc("f2", StaleAnalytics)>>
    /\ sync = IdleSync
    /\ refresh = IdleRefresh
    /\ formsCache = NoCache
    /\ handler = [h \in HandlerIds |-> IdleHandler]
    /\ faults = 0
    /\ call = IdleCall
    /\ init = IdleInit
    /\ endpoint = IdleEndpoint
    /\ config \in { HostConfig(cfg) : cfg \in { c \in InitialConfigs : WellFormed(c) } }
    /\ hook = IdleHook

NextPlugin ==
    \E d \in BOOLEAN, c \in { {}, {"pages"}, {"pages", "media"} } : ApplyPlugin(d, c)

SpecPlugin == InitPlugin /\ [][NextPlugin]_vars

(***************************************************************************)
(* One save of a document of the collection: the hook is called once.      *)
(***************************************************************************)
InitHook ==
    /\ InitIdle
    /\ docs \in InitialDocs
    /\ call = IdleCall

NextHook ==
    \/ \E op \in {"create", "update"}, f \in {"", "f1", "g9", "zz"}, n \in {"", <<"given name">>},
          o \in OptKeys, e \in EnvKeys : BeforeChange(op, f, n, o, e)
    \/ \E kind \in ProbeAnswers : HookResponse(kind)
    \/ \E ok \in BOOLEAN, forms \in { <<>>, RemoteForms } : HookJson(ok, forms)

SpecHook == InitHook /\ [][NextHook]_vars

(***************************************************************************)
(* The whole subsystem.  The synchronizer works on the document store and  *)
(* the endpoint on formsCache; they share nothing but the clock, so a      *)
(* behaviour runs the synchronizer, or the endpoint, or a single call, or  *)
(* a start of the host, or a request to the refresh endpoint.              *)
(***************************************************************************)
SyncUntouched == sync.pc = "idle" /\ refresh.pc = "idle"

HandlerUntouched == \A h \in HandlerIds : handler[h].pc = "idle"

Init ==
    /\ InitIdle
    /\ docs \in InitialDocs
    /\ call = IdleCall

StartupUntouched == init.pc = "idle"

EndpointUntouched == endpoint.pc = "idle"

Next ==
    \/ HandlerUntouched /\ ~ call.started /\ StartupUntouched /\ EndpointUntouched /\ NextSync
    \/ SyncUntouched /\ ~ call.started /\ StartupUntouched /\ EndpointUntouched /\ NextHandler
    \/ SyncUntouched /\ HandlerUntouched /\ StartupUntouched /\ EndpointUntouched /\ NextFetch
    \/ /\ HandlerUntouched /\ ~ call.started /\ EndpointUntouched
       /\ (SyncUntouched \/ ~ StartupUntouched)
       /\ NextStartup
    \/ /\ HandlerUntouched /\ ~ call.started /\ StartupUntouched
       /\ (SyncUntouched \/ ~ EndpointUntouched)
       /\ NextEndpoint

Spec == Init /\ [][Next]_vars

(***************************************************************************)
(* One batch run on a collection that is larger than the per-run cap.      *)
(* The remote service or the store fails at most once in the run.          *)
(***************************************************************************)
FormIdOf(i) == <<"f", i>>

CapDocs(n) ==
    [i \in 1..n |-> Doc(FormIdOf(i), IF i % 2 = 0 THEN StaleAnalytics ELSE EmptyObj)]

CapAnswers ==
    { a \in ProcessAnswers : a.kind = "ok" => OrZero(a.totals, "submissionsPerFormView") > One }

InitCap ==
    /\ clock = StartClock
    /\ docs \in { CapDocs(n) : n \in {0, MAX_FORMS_PER_SYNC, NumCapForms} }
    /\ sync = IdleSync
    /\ refresh = IdleRefresh
    /\ formsCache = NoCache
    /\ handler = [h \in HandlerIds |-> IdleHandler]
    /\ faults = MaxFaults - 1
    /\ call = IdleCall
    /\ init = IdleInit
    /\ endpoint = IdleEndpoint
    /\ config = HostConfig(EmptyCfg)
    /\ hook = IdleHook

NextCap ==
    \/ \E b \in BOOLEAN : SyncStart(b)
    \/ \E ok \in BOOLEAN : SyncFind(ok)
    \/ SyncPace
    \/ \E a \in CapAnswers : SyncAnswer(a)
    \/ SyncBackoffDone
    \/ \E ok \in BOOLEAN : SyncUpdate(ok)
    \/ \E ok \in BOOLEAN : SyncRecover(ok)

SpecCap == InitCap /\ [][NextCap]_vars

(***************************************************************************)
(* One batch run and what it costs.  On the collection of two forms the    *)
(* remote service and the store fail at most MaxFaults times, in any       *)
(* place.  On the collection larger than the cap they fail wherever that   *)
(* makes the run longer: every request is answered 429 as long as the      *)
(* fetcher retries, and every update of the try block is rejected.  Every  *)
(* awaited call settles.                                                   *)
(***************************************************************************)
Relentless == Len(docs) > MAX_FORMS_PER_SYNC

RelentlessAnswers ==
    IF sync.frame.attempt < SYNC_MAX_RETRIES
    THEN { Answer("r429", EmptyObj, FALSE) }
    ELSE { a \in CapAnswers : a.kind = "ok" }

InitBound ==
    /\ clock = StartClock
    /\ docs \in InitialDocs \cup {CapDocs(NumCapForms)}
    /\ sync = IdleSync
    /\ refresh = IdleRefresh
    /\ formsCache = NoCache
    /\ handler = [h \in HandlerIds |-> IdleHandler]
    /\ faults = IF Relentless THEN MaxFaults - (SYNC_MAX_RETRIES + 1) * MAX_FORMS_PER_SYNC ELSE 0
    /\ call = IdleCall
    /\ init = IdleInit
    /\ endpoint = IdleEndpoint
    /\ config = HostConfig(EmptyCfg)
    /\ hook = IdleHook

NextBound ==
    \/ \E b \in BOOLEAN : SyncStart(b)
    \/ \E ok \in BOOLEAN : (Relentless => ok) /\ SyncFind(ok)
    \/ SyncPace
    \/ \E a \in ProcessAnswers : (Relentless => a \in RelentlessAnswers) /\ SyncAnswer(a)
    \/ SyncBackoffDone
    \/ \E ok \in BOOLEAN : (Relentless => ~ ok) /\ SyncUpdate(ok)
    \/ \E ok \in BOOLEAN : (Relentless => ok) /\ SyncRecover(ok)

SpecBound == InitBound /\ [][NextBound]_vars /\ WF_vars(NextBound)

(***************************************************************************)
(* One request to POST /hubspot/refresh-analytics without a formId, on a   *)
(* collection at the per-run cap or larger than it.                        *)
(***************************************************************************)
InitRefreshAll ==
    /\ InitCap
    /\ Len(docs) >= MAX_FORMS_PER_SYNC

NextRefreshAll ==
    \/ EndpointRequest("")
    \/ \E ok \in BOOLEAN : EndpointSetup(ok)
    \/ EndpointRespond
    \/ RefreshAllDone
    \/ \E ok \in BOOLEAN : SyncFind(ok)
    \/ SyncPace
    \/ \E a \in CapAnswers : SyncAnswer(a)
    \/ SyncBackoffDone
    \/ \E ok \in BOOLEAN : SyncUpdate(ok)
    \/ \E ok \in BOOLEAN : SyncRecover(ok)

SpecRefreshAll == InitRefreshAll /\ [][NextRefreshAll]_vars

(***************************************************************************)
(* Batch runs one after the other on a collection that is larger than the  *)
(* per-run cap.  A run is started by every start of the host process, so   *)
(* the time between two runs is the time between two starts.  The code     *)
(* reads only differences between moments; the moments are therefore kept  *)
(* relative to the start of the current process: when the process starts   *)
(* again, elapsed later, clock is StartClock again and every stored stamp  *)
(* is elapsed older.  Stamps older than a day are all alike to the filter  *)
(* and are kept at a day and a millisecond.                                *)
(***************************************************************************)
OldestStamp == StartClock - ANALYTICS_CACHE_DURATION - 1

AgeStamp(stamp, elapsed) ==
    LET t == getTime(stamp) - elapsed
    IN  toISOString(IF t < OldestStamp THEN OldestStamp ELSE t)

AgeAnalytics(analytics, elapsed) ==
    IF Has(analytics, "lastUpdated")
    THEN Spread(analytics, [lastUpdated |-> AgeStamp(analytics["lastUpdated"], elapsed)])
    ELSE analytics

\* the run has resolved; the process is started again gap later
NextProcess(gap) ==
    /\ sync.pc = "done"
    /\ LET elapsed == clock - StartClock + gap
       IN  docs' = [i \in 1..Len(docs) |->
                       Doc(docs[i].formId, AgeAnalytics(docs[i].analytics, elapsed))]
    /\ clock' = StartClock
    /\ sync' = IdleSync
    /\ UNCHANGED <<hook, config, init, endpoint, call, refresh, formsCache, handler, faults>>

InitDefer ==
    /\ clock = StartClock
    /\ docs = CapDocs(NumCapForms)
    /\ sync = IdleSync
    /\ refresh = IdleRefresh
    /\ formsCache = NoCache
    /\ handler = [h \in HandlerIds |-> IdleHandler]
    /\ faults = MaxFaults - 1
    /\ call = IdleCall
    /\ init = IdleInit
    /\ endpoint = IdleEndpoint
    /\ config = HostConfig(EmptyCfg)
    /\ hook = IdleHook

NextDefer ==
    \/ SyncStart(FALSE)
    \/ \E ok \in BOOLEAN : SyncFind(ok)
    \/ SyncPace
    \/ \E a \in CapAnswers : SyncAnswer(a)
    \/ SyncBackoffDone
    \/ \E ok \in BOOLEAN : SyncUpdate(ok)
    \/ \E ok \in BOOLEAN : SyncRecover(ok)
    \/ \E gap \in {12 * 60 * 60 * 1000, 25 * 60 * 60 * 1000} : NextProcess(gap)

\* every awaited call settles and the process is started again and again
SpecDefer == InitDefer /\ [][NextDefer]_vars /\ WF_vars(NextDefer)

(***************************************************************************)
(* Properties.                                                             *)
(***************************************************************************)
IsPrefix(s, t) == Len(s) <= Len(t) /\ s = SubSeq(t, 1, Len(s))

NonDecreasing(s) == \A i \in 1..(Len(s) - 1) : s[i] <= s[i + 1]

LastUpdatedOf(analytics) ==
    IF Has(analytics, "lastUpdated") THEN {analytics["lastUpdated"]} ELSE {}

\* C1: a request is answered from the cache, without any remote call, if and
\* only if an entry exists, the request did not ask for a refresh and less
\* than an hour has passed since that entry was put; every other request
\* issues remote calls.
C1_HitIffEntryYoungerThanAnHour ==
    \A h \in HandlerIds :
        handler[h].pc # "idle" =>
            /\ handler[h].hit <=>
                 /\ handler[h].sawEntry
                 /\ ~ handler[h].forceRefresh
                 /\ handler[h].sawAge < CACHE_DURATION
            /\ handler[h].hit => handler[h].remoteCalls = 0
            /\ ~ handler[h].hit => handler[h].remoteCalls >= 1

\* C2: when the catch clause of a batch run handles the failed fetch of a
\* record, the metric fields of the record are the same after the write as
\* they were in the store right before it; only lastUpdated changes.
C2_FailureKeepsStoredMetrics ==
    [][ (sync.pc = "recover" /\ sync.frame.st = "thrown" /\ sync'.wrote # sync.wrote)
        => MetricsOf(docs'[CurrentId(sync)].analytics)
             = MetricsOf(docs[CurrentId(sync)].analytics) ]_vars

\* C3: in a batch run the selected records are fetched and written in order,
\* and when no call of the store is rejected the run ends only after every
\* selected record has been fetched and written, whichever fetches failed.
C3_FetchFailureDoesNotStopTheRun ==
    /\ IsPrefix(sync.fetched, sync.queue)
    /\ IsPrefix(sync.wrote, sync.fetched)
    /\ (sync.pc = "done" /\ ~ sync.storeFailed) =>
          /\ sync.fetched = sync.queue
          /\ sync.wrote = sync.queue

C3_Witness ==
    /\ sync.pc = "done"
    /\ ~ sync.storeFailed
    /\ Len(sync.queue) = 2
    /\ sync.caught = <<sync.queue[1]>>
    /\ sync.wrote = sync.queue

\* C4: a rejected update of the store does not end a batch run: once find
\* has returned records to process, the run ends only after every selected
\* record has been fetched.
C4_UpdateFailureDoesNotStopTheRun ==
    (sync.pc = "done" /\ sync.queue # <<>>) => sync.fetched = sync.queue

\* C5: the number of records whose analytics.lastUpdated differs from the
\* value the run loaded is at most MAX_FORMS_PER_SYNC, at every moment of
\* the run.
ChangedByRun ==
    { i \in 1..Len(sync.forms) :
        LastUpdatedOf(docs[i].analytics) # LastUpdatedOf(sync.forms[i].analytics) }

C5_AtMostCapRecordsChange == Cardinality(ChangedByRun) <= MAX_FORMS_PER_SYNC

C5_Witness ==
    /\ sync.pc = "done"
    /\ Len(sync.forms) > MAX_FORMS_PER_SYNC
    /\ Cardinality(ChangedByRun) = MAX_FORMS_PER_SYNC

\* C6: every stored snapshot, every stats object of the cache and every stats
\* object of a response has conversionRate absent or at most 1.
RateOk(o) == Has(o, "conversionRate") => o["conversionRate"] <= One

AllRatesOk(list) == \A j \in 1..Len(list) : RateOk(list[j].stats)

C6_ConversionRateAbsentOrAtMostOne ==
    /\ \A i \in 1..Len(docs) : RateOk(docs[i].analytics)
    /\ formsCache.present => AllRatesOk(formsCache.data)
    /\ \A h \in HandlerIds :
          AllRatesOk(handler[h].formsWithStats) /\ AllRatesOk(handler[h].body)

C6_Witness ==
    \E i \in 1..Len(docs) :
        /\ Has(docs[i].analytics, "views")
        /\ docs[i].analytics["views"] = 4
        /\ ~ Has(docs[i].analytics, "conversionRate")

\* C7: a fetch whose first k answers are 429 (k <= 3) and whose next answer
\* is successful returns on that answer after exactly k backoff delays, none
\* shorter than the one before; and the batch run stores the snapshot derived
\* from the value the fetch returned.
RetriedThenSucceeded(f) == f.st = "ret" /\ f.rateLimited = f.requests - 1

C7_FrameOk(f) ==
    RetriedThenSucceeded(f) =>
        /\ f.last = "ok"
        /\ f.rateLimited <= 3
        /\ Len(f.delays) = f.rateLimited
        /\ NonDecreasing(f.delays)

C7_RetryOn429ThenSuccess ==
    /\ [] ( /\ C7_FrameOk(call.frame)
            /\ C7_FrameOk(sync.frame)
            /\ C7_FrameOk(refresh.frame)
            /\ \A h \in HandlerIds : C7_FrameOk(handler[h].frame) )
    /\ [][ (sync.pc = "update" /\ sync'.wrote # sync.wrote)
           => docs'[CurrentId(sync)].analytics
                = AnalyticsData(sync.frame.value, toISOString(sync.now)) ]_vars

C7_Witness ==
    /\ sync.pc \in {"pace", "done"}
    /\ sync.frame.st = "ret"
    /\ sync.frame.rateLimited = 2
    /\ sync.frame.delays = <<2000, 4000>>
    /\ sync.wrote # <<>>
    /\ docs[sync.wrote[Len(sync.wrote)]].analytics
         = AnalyticsData(sync.frame.value, toISOString(sync.now))

\* C8: a fetch that is answered 429 on every attempt never returns a value,
\* issues at most 1 + 3 requests, waits at most 3 backoff delays, and after
\* the fourth 429 it is rejected with 'Rate limit exceeded'.
C8_RateLimitExceededAfterThreeRetries ==
    LET f == call.frame
        max == MaxRetriesOf(call.path)
    IN  (f.requests > 0 /\ f.rateLimited = f.requests) =>
            /\ f.st # "ret"
            /\ f.requests <= max + 1
            /\ Len(f.delays) <= max
            /\ f.requests = max + 1 => (f.st = "thrown" /\ f.err = "RateLimitExceeded")
            /\ f.st = "thrown" => f.requests = max + 1

C8_Witness ==
    /\ call.started
    /\ call.frame.st = "thrown"
    /\ call.frame.err = "RateLimitExceeded"
    /\ call.frame.rateLimited = 4
    /\ Len(call.frame.delays) = 3

\* C9: a failure that is neither a 429 nor a connection failure (another
\* non-2xx status, a body that does not parse) rejects the fetch at once:
\* no backoff delay follows it.
C9_OtherFailuresAreNotRetried ==
    call.frame.last \in {"httperr", "badjson"} => call.frame.st = "thrown"

\* C10: the timestamp of the cache entry is the moment the entry was put.
C10_TimestampIsThePutTime ==
    formsCache.present => formsCache.timestamp = formsCache.putAt

\* C11: the candidate set of a batch run is every loaded record when
\* forceRefresh is true, and otherwise exactly the loaded records whose
\* analytics.lastUpdated is absent or lies more than 24 hours before the
\* instant the run takes as its start (now); a record updated exactly 24
\* hours before it, or later, is not a candidate.
SeqRange(s) == { s[j] : j \in 1..Len(s) }

StampOlderThanADay(analytics, start) ==
    getTime(analytics["lastUpdated"]) + ANALYTICS_CACHE_DURATION < start

C11_Expected ==
    IF sync.forceRefresh
    THEN 1..Len(sync.forms)
    ELSE { i \in 1..Len(sync.forms) :
             \/ ~ Has(sync.forms[i].analytics, "lastUpdated")
             \/ StampOlderThanADay(sync.forms[i].analytics, sync.now) }

C11_CandidateSetIsTheStaleRecords ==
    (sync.pc \notin {"idle", "find"} /\ sync.forms # <<>>) =>
        /\ SeqRange(sync.toUpdate) = C11_Expected
        /\ Len(sync.toUpdate) = Cardinality(C11_Expected)

C11_Witness ==
    /\ sync.pc = "done"
    /\ ~ sync.forceRefresh
    /\ Len(sync.forms) = 2
    /\ Has(sync.forms[1].analytics, "lastUpdated")
    /\ sync.now - getTime(sync.forms[1].analytics["lastUpdated"]) = ANALYTICS_CACHE_DURATION
    /\ sync.toUpdate = <<2>>
    /\ sync.fetched = <<2>>

\* C12: over the runs that follow one another, a record that was a candidate
\* of a run and was cut off by the cap is fetched by a later run.
CutOff(i) ==
    /\ sync.pc \notin {"idle", "find"}
    /\ i \in SeqRange(sync.toUpdate)
    /\ i \notin SeqRange(sync.queue)

C12_NoCandidateIsDeferredForever ==
    \A i \in 1..NumCapForms : [](CutOff(i) => <>(i \in SeqRange(sync.fetched)))

\* C13: a batch run never rejects toward its caller, whichever calls of the
\* store and of the remote service failed, and the callback of the timer set
\* by onInit never lets an error escape.
C13_SyncNeverFailsTowardItsCaller ==
    /\ ~ sync.rejected
    /\ ~ init.escaped
    /\ (init.cb = "done" /\ sync.pc # "idle") => sync.pc = "done"

C13_Witness ==
    /\ init.cb = "done"
    /\ sync.pc = "done"
    /\ sync.aborted
    /\ sync.caught # <<>>
    /\ sync.frame.st = "thrown"

\* C14: a request to the refresh endpoint during which an error occurred (in
\* the setup, in the single-form refresh, or in the batch run of a
\* refresh-all: a rejected load, a failed fetch, a rejected update) is
\* answered with status 500 and not with a success body.
EndpointSawError ==
    \/ endpoint.details # <<>>
    \/ refresh.err # "none"
    \/ endpoint.formId = "" /\ (sync.aborted \/ sync.caught # <<>>)

C14_EveryErrorAnswers500 ==
    (endpoint.pc = "done" /\ EndpointSawError) =>
        (endpoint.status = 500 /\ ~ endpoint.success)

\* C15: a refresh for a formId that matches no record fails with the 'not
\* found' error before any remote request and any write to the store, and
\* the endpoint answers status 500 with the message of that error in details.
NoRecordOf(formId) == findByFormId(docs, formId) = <<>>

C15_NotFoundFailsBeforeAnyCall ==
    /\ (refresh.pc = "done" /\ refresh.formId # "" /\ NoRecordOf(refresh.formId)
            /\ refresh.err # "Storage") =>
          /\ refresh.err = "NotFound"
          /\ refresh.frame.requests = 0
          /\ ~ refresh.wrote
          /\ docs \in InitialDocs
    /\ (endpoint.pc = "done" /\ endpoint.formId # "" /\ NoRecordOf(endpoint.formId)
            /\ refresh.pc = "done" /\ refresh.err # "Storage") =>
          /\ endpoint.status = 500
          /\ endpoint.details = <<"Form with ID", endpoint.formId, "not found">>

C15_Witness ==
    /\ endpoint.pc = "done"
    /\ endpoint.formId = "fx"
    /\ refresh.err = "NotFound"
    /\ endpoint.status = 500
    /\ endpoint.details = <<"Form with ID", "fx", "not found">>

\* C16: a refresh of an existing record stores the derived snapshot when the
\* fetch succeeds; when the fetch fails it stores a new lastUpdated on the
\* record and rejects toward its caller.
C16_RefreshFailureStampsTheRecord ==
    /\ (refresh.pc = "done" /\ refresh.wrote) =>
          docs[refresh.id].analytics = refresh.data
    /\ (refresh.pc = "done" /\ refresh.frame.st = "thrown") =>
          /\ refresh.err # "none"
          /\ Has(docs[refresh.id].analytics, "lastUpdated")
          /\ getTime(docs[refresh.id].analytics["lastUpdated"]) >= StartClock

\* C17: the hook calls the hook that was installed before it exactly once,
\* and it looks up the API key and issues its remote request only after that
\* hook has settled, with and without an API key.
C17_EarlierHookRunsFirstAndOnce ==
    /\ init.hookCalls = IF init.hasHook /\ init.pc # "idle" THEN 1 ELSE 0
    /\ (init.hasHook /\ (init.keyResolved \/ init.remoteCalls > 0)) => init.hookDone

C17_Witness ==
    /\ init.pc = "done"
    /\ init.hasHook
    /\ init.hookCalls = 1
    /\ init.hookDone
    /\ init.keyResolved
    /\ init.apiKey = ""

\* C18: without an API key in the options and in the environment the hook
\* writes the warning, issues no remote request, does not touch the store,
\* sets no timer and resolves.
C18_NoKeyWarnsAndSkips ==
    (init.pc = "done" /\ init.keyResolved /\ init.apiKey = "") =>
        /\ init.log = << <<"warn", "HubSpot API key not found. Forms sync skipped.">> >>
        /\ init.remoteCalls = 0
        /\ init.timers = 0
        /\ ~ init.thrown
        /\ sync.pc = "idle"
        /\ docs \in InitialDocs

\* C19: when the request that tests the connection is rejected or answered
\* with a non-2xx status, the hook resolves, the failure is written to the
\* log, nothing is written to the store and no timer is set.
C19_FailedProbeIsLoggedAndSkips ==
    (init.pc = "done" /\ init.probe \in {"non2xx", "rejected"}) =>
        /\ ~ init.thrown
        /\ init.log # <<>>
        /\ init.timers = 0
        /\ sync.pc = "idle"
        /\ docs \in InitialDocs

\* C20: with an API key and a successful connection test the hook sets
\* exactly one timer and returns; the batch run does nothing before the timer
\* has fired, which is SETTLE_DELAY after it was set at the earliest.
C20_OneRunScheduledAfterTheSettleDelay ==
    /\ init.timers = IF init.probe = "ok" THEN 1 ELSE 0
    /\ init.probe = "ok" => init.pc = "done"
    /\ init.timer = "pending" => (sync.pc = "idle" /\ init.cb = "idle")
    /\ sync.pc # "idle" =>
          /\ init.pc = "done"
          /\ init.timer = "fired"
          /\ clock >= init.scheduledAt + 5000

C20_Witness ==
    /\ init.timers = 1
    /\ init.timer = "fired"
    /\ init.cb = "done"
    /\ sync.pc = "done"
    /\ sync.wrote # <<>>

\* C21: without an API key in the options and in the environment the call of
\* a fetcher fails with a configuration error: it produces no header value
\* and issues no remote request.
C21_NoHeadersWithoutAKey ==
    (call.started /\ call.optKey = "" /\ call.envKey = "") =>
        /\ call.headers = EmptyObj
        /\ call.frame.requests = 0
        /\ call.frame.st = "thrown"
        /\ call.frame.err = "Configuration"

\* C22: the snapshot derived at each of the three places is the one of the
\* reference: every count and every rate is the raw total, or 0 when the
\* total is missing, and conversionRate is absent when submissionsPerFormView
\* (0 when missing) is above 1 and equal to it otherwise.  So the three
\* places derive the same snapshot from the same totals.
RawOrZero(totals, key) == IF key \in DOMAIN totals THEN totals[key] ELSE 0

ReferenceRaw ==
    [views |-> "formViews", submissions |-> "submissions",
     clickThroughRate |-> "clickThroughPerFormView",
     submissionRate |-> "submissionsPerClickThrough",
     interactions |-> "interactions", nonContactSubmissions |-> "nonContactSubmissions"]

IsReferenceSnapshot(snapshot, totals) ==
    LET ratio == RawOrZero(totals, "submissionsPerFormView") IN
    /\ \A k \in DOMAIN ReferenceRaw :
          k \in DOMAIN snapshot /\ snapshot[k] = RawOrZero(totals, ReferenceRaw[k])
    /\ IF ratio > One
       THEN "conversionRate" \notin DOMAIN snapshot
       ELSE "conversionRate" \in DOMAIN snapshot /\ snapshot["conversionRate"] = ratio
    /\ (DOMAIN snapshot) \ {"lastUpdated"} \subseteq (DOMAIN ReferenceRaw) \cup {"conversionRate"}

C22_DerivationIsTheReferenceEverywhere ==
    /\ sync.pc = "update" => IsReferenceSnapshot(sync.data, sync.frame.value)
    /\ refresh.pc = "update" => IsReferenceSnapshot(refresh.data, refresh.frame.value)
    /\ \A h \in HandlerIds :
          handler[h].frame.st = "ret" =>
              IsReferenceSnapshot(
                  handler[h].formsWithStats[Len(handler[h].formsWithStats)].stats,
                  handler[h].frame.value)

C22_Witness ==
    /\ sync.pc = "update"
    /\ refresh.pc = "update"
    /\ handler["h1"].frame.st = "ret"
    /\ sync.frame.value = [formViews |-> 100, submissions |-> 10, submissionsPerFormView |-> 10]
    /\ refresh.frame.value = sync.frame.value
    /\ handler["h1"].frame.value = sync.frame.value
    /\ sync.data["views"] = 100 /\ sync.data["submissions"] = 10
    /\ sync.data["conversionRate"] = 10
    /\ DropKey(sync.data, "lastUpdated") = DropKey(refresh.data, "lastUpdated")
    /\ DropKey(sync.data, "lastUpdated") = handler["h1"].formsWithStats[1].stats

\* C23: the write that follows a successful fetch leaves the record with
\* exactly the snapshot derived from the fetched totals and the stamp of the
\* write: no key of the previous snapshot survives, so conversionRate is
\* absent after a ratio above 1 even when the record had one before.
StoredIsDerived(stored, totals) ==
    /\ IsReferenceSnapshot(stored, totals)
    /\ "lastUpdated" \in DOMAIN stored
    /\ RawOrZero(totals, "submissionsPerFormView") > One => ~ Has(stored, "conversionRate")

C24_BatchIsSequential ==
    /\ IsPrefix(sync.fetched, sync.queue)
    /\ IsPrefix(sync.wrote, sync.fetched)
    /\ sync.pc \in {"fetch", "update", "recover"} =>
          /\ Len(sync.fetched) = sync.i
          /\ Len(sync.wrote) = sync.i - 1
    /\ sync.pc = "pace" =>
          /\ Len(sync.fetched) = sync.i - 1
          /\ Len(sync.wrote) = sync.i - 1
    /\ \A h \in HandlerIds :
          /\ handler[h].pc = "fetch" => Len(handler[h].formsWithStats) = handler[h].i - 1
          /\ handler[h].pc = "pace" => Len(handler[h].formsWithStats) = handler[h].i - 1
          /\ \A j \in 1..Len(handler[h].formsWithStats) :
                handler[h].formsWithStats[j].guid = handler[h].forms[j]

C24_Witness ==
    /\ sync.pc = "fetch"
    /\ sync.i = 2
    /\ sync.frame.st = "wait"
    /\ sync.caught = <<sync.queue[1]>>
    /\ sync.wrote = <<sync.queue[1]>>

\* C25: a batch of N items has exactly N - 1 pacing delays, of 3000 ms in a
\* batch run and of 50 ms in a recompute of the endpoint: the first request
\* of item i comes after i - 1 of them, whether the earlier items succeeded
\* or failed.
C25_OnePacingDelayBeforeEveryItemButTheFirst ==
    /\ sync.pacedMs = 3000 * sync.paced
    /\ sync.pc \in {"fetch", "update", "recover"} => sync.paced = sync.i - 1
    /\ sync.pc = "pace" => sync.paced = sync.i - 2
    /\ (sync.pc = "done" /\ ~ sync.aborted /\ sync.queue # <<>>) =>
          sync.paced = Len(sync.queue) - 1
    /\ \A h \in HandlerIds :
          /\ handler[h].pacedMs = 50 * handler[h].paced
          /\ handler[h].pc = "fetch" => handler[h].paced = handler[h].i - 1
          /\ handler[h].pc = "pace" => handler[h].paced = handler[h].i - 2
          /\ (handler[h].pc = "done" /\ handler[h].status = 200 /\ ~ handler[h].hit
                 /\ handler[h].forms # <<>>) =>
                handler[h].paced = Len(handler[h].forms) - 1

C25_Witness ==
    /\ sync.pc = "done"
    /\ ~ sync.aborted
    /\ Len(sync.queue) = 2
    /\ sync.caught = <<sync.queue[1]>>
    /\ sync.paced = 1
    /\ sync.pacedMs = 3000

\* C27: applied with disabled: true, the plugin adds the hubspot-forms
\* collection and the field of every configured collection, and leaves
\* config.endpoints and config.onInit exactly as they were.
ExpectedFields(collection, options) ==
    IF collection.slug \in options.collections
    THEN Append(collection.fields, "addedByPlugin")
    ELSE collection.fields

C27_DisabledKeepsEndpointsAndOnInit ==
    (config.applied /\ config.options.disabled) =>
        LET in == config.incoming
            out == config.result
        IN  /\ out.hasCollections
            /\ Len(out.collections) = Len(in.collections) + 1
            /\ out.collections[Len(out.collections)].slug = "hubspot-forms"
            /\ \A i \in 1..Len(in.collections) :
                  /\ out.collections[i].slug = in.collections[i].slug
                  /\ out.collections[i].fields = ExpectedFields(in.collections[i], config.options)
            /\ out.hasEndpoints = in.hasEndpoints
            /\ out.endpoints = in.endpoints
            /\ out.onInit = in.onInit

C27_Witness ==
    /\ config.applied
    /\ config.options.disabled
    /\ config.options.collections = {"pages"}
    /\ ~ config.incoming.hasEndpoints
    /\ config.incoming.onInit = "incoming"
    /\ Len(config.result.collections) = 3
    /\ config.result.collections[1].fields = <<"title", "addedByPlugin">>
    /\ ~ config.result.hasEndpoints

\* C26: no step of a sync run, of a refresh or of onInit creates or deletes
\* a record or changes a formId (or a name): only the analytics of records
\* that exist are written.
C26_OnlyAnalyticsOfExistingRecordsAreWritten ==
    [][ /\ Len(docs') = Len(docs)
        /\ \A i \in 1..Len(docs) :
              /\ docs'[i].formId = docs[i].formId
              /\ docs'[i].name = docs[i].name ]_vars

C26_Witness ==
    /\ init.pc = "done"
    /\ sync.pc = "done"
    /\ Len(sync.wrote) = 2
    /\ Len(docs) = 2
    /\ docs[1].formId = "f1"
    /\ docs[2].formId = "f2"
    /\ "lastUpdated" \in DOMAIN docs[1].analytics
    /\ "lastUpdated" \in DOMAIN docs[2].analytics

\* C28: when onInit has run with an API key and the remote service has
\* answered, every tracked record whose formId is the guid of a remote form
\* carries the name of that form, and no record was created for the others.
C28_OnInitSyncsTheNames ==
    (init.pc = "done" /\ init.probe = "ok") =>
        /\ \A i \in 1..Len(docs) : \A j \in 1..Len(RemoteForms) :
              docs[i].formId = RemoteForms[j].guid => docs[i].name = RemoteForms[j].name
        /\ Len(docs) = 2

\* C29: when the request without a formId is answered with success, the run
\* it started has written the analytics of every tracked record, and each
\* carries a lastUpdated of that run, however many records there are.
C29_SuccessMeansEveryFormWasRefreshed ==
    (endpoint.pc = "done" /\ endpoint.success /\ endpoint.formId = "") =>
        \A i \in 1..Len(docs) :
            /\ i \in SeqRange(sync.wrote)
            /\ "lastUpdated" \in DOMAIN docs[i].analytics
            /\ getTime(docs[i].analytics.lastUpdated) >= sync.now

\* the same for a run in which no request and no write failed
C29_EvenWithoutAnyFailure ==
    (endpoint.pc = "done" /\ endpoint.success /\ endpoint.formId = ""
        /\ faults = MaxFaults - 1) =>
        \A i \in 1..Len(docs) : i \in SeqRange(sync.wrote)

\* C30: a write of a batch run to a record that another run has written
\* since the batch run loaded it leaves what that run stored in place: its
\* metrics and its lastUpdated.
StoredSinceLoad(id) == docs[id].analytics # sync.forms[id].analytics

C30_BatchWriteKeepsWhatAnotherRunStored ==
    [][ (sync.pc \in {"update", "recover"} /\ sync'.wrote # sync.wrote
            /\ StoredSinceLoad(CurrentId(sync)))
        => docs'[CurrentId(sync)].analytics = docs[CurrentId(sync)].analytics ]_vars

\* C31: a record whose fetch failed in a batch run, and which the catch
\* clause of the run has written, carries the now of that run as
\* lastUpdated; in the non-forced run that follows it is a candidate exactly
\* when that run starts more than 24 hours after the now of the failed run.
FailedAndWritten(run) == SeqRange(run.fetchFailed) \cap SeqRange(run.wrote)

C31_FailedRecordIsDueAgainAfterADay ==
    /\ \A i \in FailedAndWritten(sync) :
          /\ Has(docs[i].analytics, "lastUpdated")
          /\ docs[i].analytics["lastUpdated"] = toISOString(sync.now)
    /\ (sync.earlier # NoRun /\ ~ sync.forceRefresh /\ sync.forms # <<>>) =>
          \A i \in FailedAndWritten(sync.earlier) :
              i \in SeqRange(sync.toUpdate)
                <=> sync.now - sync.earlier.now > ANALYTICS_CACHE_DURATION

C31_Witness ==
    /\ sync.earlier # NoRun
    /\ ~ sync.forceRefresh
    /\ sync.pc = "done"
    /\ 1 \in FailedAndWritten(sync.earlier)
    /\ sync.now - sync.earlier.now = ANALYTICS_CACHE_DURATION + 1
    /\ 1 \in SeqRange(sync.toUpdate)
    /\ 1 \in SeqRange(sync.wrote)

\* C32: whatever the answers are, a call of a fetcher issues at most
\* 1 + 3 requests and waits at most 3 backoff delays; 429 answers and
\* connection failures count on the same attempt number, and a call that
\* has been rejected issues no further request.
Issued(f) == f.requests + (IF f.st = "req" THEN 1 ELSE 0)

Waits(f) == Len(f.delays) + (IF f.st = "wait" THEN 1 ELSE 0)

C32_FrameBounded(f, path) ==
    /\ Issued(f) <= MaxRetriesOf(path) + 1
    /\ Waits(f) <= MaxRetriesOf(path)
    /\ Issued(f) = f.attempt + 1
    /\ Waits(f) = f.requests - (IF f.st \in {"ret", "thrown"} THEN 1 ELSE 0)

C32_AtMostFourRequestsPerCall ==
    /\ [] (call.started => C32_FrameBounded(call.frame, call.path))
    /\ [][ call.frame.st \in {"ret", "thrown"} => call'.frame = call.frame ]_vars

C32_Witness ==
    /\ call.started
    /\ call.frame.st = "thrown"
    /\ call.frame.err = "Network"
    /\ call.frame.requests = 4
    /\ call.frame.rateLimited = 2
    /\ Len(call.frame.delays) = 3

\* C33: as every awaited call settles, a batch run that has started ends;
\* it issues at most 4 analytics requests and 2 updates of the store for
\* each record it processes, and it processes at most 20: at most 80
\* requests and 40 updates.
C33_RunEndsWithinItsBudget ==
    /\ (sync.pc # "idle") ~> (sync.pc = "done")
    /\ [] ( /\ Len(sync.queue) <= MAX_FORMS_PER_SYNC
            /\ sync.requests <= (SYNC_MAX_RETRIES + 1) * Len(sync.queue)
            /\ sync.updates <= 2 * Len(sync.queue)
            /\ sync.requests <= 80
            /\ sync.updates <= 40 )

C33_Witness ==
    /\ sync.pc = "done"
    /\ Len(sync.forms) > MAX_FORMS_PER_SYNC
    /\ sync.requests = 80
    /\ sync.updates = 40
    /\ Len(sync.wrote) = MAX_FORMS_PER_SYNC

\* C34: with several requests in flight the timestamp of the cache entry
\* never decreases from one put to the next (the cache is one slot: it holds
\* one entry or none).
C34_TimestampNeverDecreases ==
    [][ (formsCache.present /\ formsCache'.present)
        => formsCache'.timestamp >= formsCache.timestamp ]_vars

\* C35: a request whose forms-list request fails is answered 500 and leaves
\* the cache as it was.  A form whose analytics fetch fails is listed with
\* all stats zero; the request is still answered 200 and its result is put
\* in the cache, and a request answered from the cache gets the data of the
\* entry, which was put less than an hour before.
AllZero ==
    [clickThroughRate |-> 0, conversionRate |-> 0, interactions |-> 0,
     nonContactSubmissions |-> 0, submissionRate |-> 0, submissions |-> 0, views |-> 0]

C35_ListFails(h) ==
    (handler[h].pc = "list" /\ handler'[h] # handler[h] /\ faults' # faults) =>
        /\ handler'[h].pc = "done"
        /\ handler'[h].status = 500
        /\ formsCache' = formsCache

C35_FetchFails(h) ==
    (handler[h].pc = "fetch" /\ handler[h].frame.st = "req"
        /\ handler'[h].frame.st = "thrown") =>
        /\ handler'[h].formsWithStats =
              Append(handler[h].formsWithStats,
                     StatsEntry(handler[h].forms[handler[h].i], AllZero))
        /\ handler'[h].pc = "done" =>
              /\ handler'[h].status = 200
              /\ handler'[h].body = handler'[h].formsWithStats
              /\ formsCache'.present
              /\ formsCache'.data = handler'[h].formsWithStats

C35_ServedFromTheCache(h) ==
    (handler[h].pc = "idle" /\ handler'[h].hit) =>
        /\ ~ handler'[h].forceRefresh
        /\ handler'[h].status = 200
        /\ handler'[h].body = formsCache.data
        /\ clock - formsCache.putAt < CACHE_DURATION

C35_ListFailureKeepsCacheFetchFailureZeroes ==
    [][ \A h \in HandlerIds :
           C35_ListFails(h) /\ C35_FetchFails(h) /\ C35_ServedFromTheCache(h) ]_vars

C35_Witness ==
    /\ handler["h1"].pc = "done"
    /\ handler["h1"].status = 200
    /\ ~ handler["h1"].hit
    /\ Len(handler["h1"].formsWithStats) = 2
    /\ handler["h1"].frame.st = "thrown"
    /\ handler["h1"].formsWithStats[1].stats # AllZero
    /\ handler["h1"].formsWithStats[2].stats = AllZero
    /\ handler["h2"].hit
    /\ handler["h2"].body = handler["h1"].formsWithStats
    /\ formsCache.data = handler["h1"].formsWithStats

\* a request whose forms-list request failed while an entry was in the cache
C35_WitnessListFailed ==
    /\ handler["h2"].pc = "done"
    /\ handler["h2"].status = 500
    /\ formsCache.present
    /\ formsCache.data = handler["h1"].formsWithStats
    /\ handler["h1"].pc = "done"
    /\ ~ handler["h1"].hit

\* C36: the hook, called on a create with a formId and no name, returns the
\* data with the name of the remote form of that guid when a key is
\* configured, the service answers and lists the form, and is rejected in
\* every other case; called on an update, or with a name, it returns the
\* data as they are and issues no remote request.
HookKey == IF hook.optKey # "" THEN hook.optKey ELSE hook.envKey

Listed(formId) == \E j \in 1..Len(hook.list) : hook.list[j].guid = formId

NameOf(formId) ==
    hook.list[CHOOSE j \in 1..Len(hook.list) :
                 /\ hook.list[j].guid = formId
                 /\ \A k \in 1..(j - 1) : hook.list[k].guid # formId].name

UpdatedWithinADay(form, now) ==
    /\ Has(form.analytics, "lastUpdated")
    /\ now - getTime(form.analytics["lastUpdated"]) <= ANALYTICS_CACHE_DURATION

NothingToDo ==
    \/ sync.forms = <<>> /\ ~ sync.aborted
    \/ /\ ~ sync.forceRefresh
       /\ sync.forms # <<>>
       /\ \A i \in 1..Len(sync.forms) : UpdatedWithinADay(sync.forms[i], sync.now)

C37_NothingToDoMeansNoCall ==
    (sync.pc \notin {"idle", "find"} /\ NothingToDo) =>
        /\ sync.pc = "done"
        /\ sync.requests = 0
        /\ sync.updates = 0
        /\ sync.fetched = <<>>
        /\ sync.wrote = <<>>
        /\ sync.paced = 0
        /\ docs = sync.forms

C37_Witness ==
    /\ sync.pc = "done"
    /\ ~ sync.forceRefresh
    /\ ~ sync.aborted
    /\ Len(sync.forms) = 2
    /\ NothingToDo
    /\ sync.now - getTime(sync.forms[1].analytics["lastUpdated"]) = ANALYTICS_CACHE_DURATION
    /\ sync.requests = 0

\* a run on a collection without records
C37_WitnessNoRecords ==
    /\ sync.pc = "done"
    /\ ~ sync.aborted
    /\ docs = <<>>
    /\ sync.forms = <<>>
    /\ sync.requests = 0

====
